---- MODULE Spec2Model ----
(***************************************************************************)
(* Verification model of the video-download pipeline of                    *)
(* sevenfold-echo-prism: the download-video edge function                   *)
(* (handler, downloadVideoProcess, executeDownloadWithValidation,           *)
(* monitorDownloadWithTimeout, verifyFileIntegrity, uploadAndComplete),     *)
(* the extraction subprocess it drives, and the job record it writes.       *)
(*                                                                          *)
(* Percentages are kept in tenths of a point (Scale = 10), so 45.2% is 452. *)
(* Text read from the subprocess is a sequence of lexical tokens.           *)
(***************************************************************************)
EXTENDS Integers, Sequences, FiniteSets, TLC

\* ------------------------------------------------------------------------
\* Bounds of the model
\* ------------------------------------------------------------------------
MaxChunks == 1      \* stdout chunks read during one job of the pipeline
MaxParse == 4       \* stdout chunks read by one reader in the parser runs

\* ------------------------------------------------------------------------
\* Program constants
\* ------------------------------------------------------------------------
Scale == 10
maxAttempts == 3
ParserCeiling == 85 * Scale
MonitorCeiling == 90 * Scale
InitialDownloadProgress == 15 * Scale
MonitorInitialProgress == 10 * Scale
MinDelta == 1 * Scale
MinSizeAudio == 100000
MinSizeVideo == 1000000
MinSizeUpload == 10000
MinSizeFind == 50000
SizeDiffMatters == 1000000
MinNameLength == 10

Null == "NULL"

Pct(n) == n * Scale

\* ------------------------------------------------------------------------
\* Text of the subprocess: tokens, and the parser's regular expressions
\* ------------------------------------------------------------------------
Digits == {"0", "1", "2", "3", "4", "5", "6", "7", "8", "9"}

DigitVal(d) ==
  CASE d = "0" -> 0 [] d = "1" -> 1 [] d = "2" -> 2 [] d = "3" -> 3
    [] d = "4" -> 4 [] d = "5" -> 5 [] d = "6" -> 6 [] d = "7" -> 7
    [] d = "8" -> 8 [] d = "9" -> 9

IsDigit(t) == t \in Digits

\* \s of the regular expressions: a blank or a line break
IsSpace(t) == t \in {" ", "NL"}

\* first index >= i of s that holds no digit (Len(s)+1 when there is none)
DigitsEnd(s, i) ==
  IF \E j \in i..Len(s) : ~IsDigit(s[j])
    THEN CHOOSE j \in i..Len(s) :
           ~IsDigit(s[j]) /\ \A k \in i..(j - 1) : IsDigit(s[k])
    ELSE Len(s) + 1

\* first index >= i of s that holds no white space
SpacesEnd(s, i) ==
  IF \E j \in i..Len(s) : ~IsSpace(s[j])
    THEN CHOOSE j \in i..Len(s) :
           ~IsSpace(s[j]) /\ \A k \in i..(j - 1) : IsSpace(s[k])
    ELSE Len(s) + 1

RECURSIVE DecVal(_, _, _)
\* value of the digits s[i..e-1]
DecVal(s, i, e) ==
  IF e <= i THEN 0 ELSE DecVal(s, i, e - 1) * 10 + DigitVal(s[e - 1])

\* parseFloat of the capture (\d+\.?\d*), in tenths
parseFloat(s, i, e1, e2) ==
  DecVal(s, i, e1) * Scale
    + (IF e2 > e1 + 1 THEN DigitVal(s[e1 + 1]) ELSE 0)

\* (\d+\.?\d*)% tried at index i: the capture is s[i..e2-1], s[e2] is "%"
NumPctAt(s, i) ==
  IF i > Len(s) \/ i < 1 THEN [ok |-> FALSE, end |-> 0, val |-> 0]
  ELSE IF ~IsDigit(s[i]) THEN [ok |-> FALSE, end |-> 0, val |-> 0]
  ELSE
    LET e1 == DigitsEnd(s, i)
        e2 == IF e1 <= Len(s) /\ s[e1] = "." THEN DigitsEnd(s, e1 + 1) ELSE e1
    IN  IF e2 <= Len(s) /\ s[e2] = "%"
          THEN [ok |-> TRUE, end |-> e2, val |-> parseFloat(s, i, e1, e2)]
          ELSE [ok |-> FALSE, end |-> 0, val |-> 0]

\* /\[download\]\s+(\d+\.?\d*)%/ tried at index i
TagMatchAt(s, i) ==
  /\ s[i] = "[download]"
  /\ i + 1 <= Len(s)
  /\ IsSpace(s[i + 1])
  /\ NumPctAt(s, SpacesEnd(s, i + 1)).ok

\* /(\d+\.?\d*)% of/ tried at index i
OfMatchAt(s, i) ==
  LET m == NumPctAt(s, i)
  IN  /\ m.ok
      /\ m.end + 2 <= Len(s)
      /\ s[m.end + 1] = " "
      /\ s[m.end + 2] = "of"

\* /(\d+\.?\d*)%.*ETA/ tried at index i ("." does not cross a line break)
EtaMatchAt(s, i) ==
  LET m == NumPctAt(s, i)
  IN  /\ m.ok
      /\ \E j \in (m.end + 1)..Len(s) :
           /\ s[j] = "ETA"
           /\ \A k \in (m.end + 1)..(j - 1) : s[k] # "NL"

NoMatch == [matched |-> FALSE, val |-> 0]

\* output.match(r1) || output.match(r2) || output.match(r3): each match is
\* the leftmost one of its expression
progressMatch(output) ==
  LET n == Len(output)
      Leftmost(P(_)) == CHOOSE i \in 1..n : P(i) /\ \A k \in 1..(i - 1) : ~P(k)
      T(i) == TagMatchAt(output, i)
      O(i) == OfMatchAt(output, i)
      E(i) == EtaMatchAt(output, i)
  IN  IF \E i \in 1..n : T(i)
        THEN [matched |-> TRUE,
              val |-> NumPctAt(output, SpacesEnd(output, Leftmost(T) + 1)).val]
      ELSE IF \E i \in 1..n : O(i)
        THEN [matched |-> TRUE, val |-> NumPctAt(output, Leftmost(O)).val]
      ELSE IF \E i \in 1..n : E(i)
        THEN [matched |-> TRUE, val |-> NumPctAt(output, Leftmost(E)).val]
      ELSE NoMatch

Min(a, b) == IF a < b THEN a ELSE b
Max(a, b) == IF a > b THEN a ELSE b

\* variant without the ceiling
ClampProgressNoCeiling(parsed, downloadProgress) == Max(parsed, downloadProgress)

\* Math.min(Math.max(parseFloat(m[1]), downloadProgress), 85)
ClampProgress(parsed, downloadProgress) ==
  Min(Max(parsed, downloadProgress), ParserCeiling)

\* variant that persists every changed value
AdvancesOnChange(newProgress, downloadProgress) ==
  newProgress # downloadProgress

\* newProgress > downloadProgress + 1
Advances(newProgress, downloadProgress) ==
  newProgress > downloadProgress + MinDelta

\* speedMatch ? speedMatch[1] : 'Downloading...'
SpeedText(output) ==
  IF \E i \in 1..Len(output) : output[i] = "1.5MiB/s"
    THEN "1.5MiB/s" ELSE "Downloading..."

\* etaMatch ? etaMatch[1] : 'Calculating...'
EtaText(output) ==
  IF \E i \in 1..(Len(output) - 2) :
       output[i] = "ETA" /\ output[i + 1] = " " /\ output[i + 2] = "00:10"
    THEN "00:10" ELSE "Calculating..."

\* ------------------------------------------------------------------------
\* Files of the temp directory
\* ------------------------------------------------------------------------
NoFile == "NOFILE"
BadPath == "[download] /tmp/Video_Up_id1.mp4"

HdrMp4  == <<0, 0, 0, 24, 102, 116, 121, 112>>
HdrText == <<72, 101, 108, 108, 111, 32, 119, 111>>
HdrEbml == <<26, 69, 223, 163, 1, 0, 0, 0>>
HdrId3  == <<73, 68, 51, 4, 0, 0, 0, 0>>
HdrMp4Variant == <<0, 0, 0, 28, 102, 116, 121, 112>>
HdrFtyp32 == <<0, 0, 0, 32, 102, 116, 121, 112>>
HdrMp3 == <<255, 251, 144, 0, 0, 0, 0, 0>>
Ftyp == <<102, 116, 121, 112>>

\* the files the extraction tool of the job may leave in /tmp; job is the
\* job whose subprocess wrote the file
Files ==
  { [name |-> "/tmp/Video_Up_id1.mp4", ext |-> "mp4", nameLen |-> 16,
     hidden |-> FALSE, size |-> 5000000, mtime |-> 3, header |-> HdrMp4,
     job |-> "A"],
    [name |-> "/tmp/Tiny_Up_id2.mp4", ext |-> "mp4", nameLen |-> 15,
     hidden |-> FALSE, size |-> 500, mtime |-> 2, header |-> HdrMp4,
     job |-> "A"],
    [name |-> "/tmp/Song_Up_id5.mp3", ext |-> "mp3", nameLen |-> 15,
     hidden |-> FALSE, size |-> 200000, mtime |-> 4, header |-> HdrId3,
     job |-> "A"] }

FileNames == {f.name : f \in Files}
FileOf(path) == CHOOSE f \in Files : f.name = path

\* ------------------------------------------------------------------------
\* buildEnhancedDownloadCommand
\* ------------------------------------------------------------------------
Resolutions == {"1080p", "720p", "4K"}
Formats == {"video", "audio", "both"}

\* the (resolution, format) pairs of the requests of the model
Requests == {<<"1080p", "both">>, <<"720p", "video">>, <<"4K", "audio">>}

\* a request whose body carries no quality: resolution and format are undefined
NoQuality == <<"NULL", "NULL">>

\* resolution.replace('p', '')
StripP(resolution) ==
  CASE resolution = "144p" -> "144" [] resolution = "360p" -> "360"
    [] resolution = "480p" -> "480" [] resolution = "720p" -> "720"
    [] resolution = "1080p" -> "1080" [] resolution = "1440p" -> "1440"
    [] resolution = "2160p" -> "2160"
    [] OTHER -> resolution

maxHeight(resolution) == IF resolution = "4K" THEN "2160" ELSE StripP(resolution)

\* one alternative of a format selector: stream[height<=h][ext=e]
Alt(stream, h, e) == [stream |-> stream, height |-> h, ext |-> e]

\* variant whose chains stop at the last conditional alternative
buildEnhancedDownloadCommandStrict(url, resolution, format) ==
  IF format = "audio"
    THEN [extractAudio |-> TRUE, url |-> url,
          selector |-> <<Alt("bestaudio", "", "m4a"), Alt("bestaudio", "", "mp3"),
                         Alt("bestaudio", "", "")>>]
  ELSE IF format = "video"
    THEN [extractAudio |-> FALSE, url |-> url,
          selector |-> <<Alt("bestvideo", maxHeight(resolution), "mp4"),
                         Alt("bestvideo", maxHeight(resolution), ""),
                         Alt("bestvideo", "", "")>>]
  ELSE [extractAudio |-> FALSE, url |-> url,
        selector |-> <<Alt("best", maxHeight(resolution), "mp4"),
                       Alt("best", maxHeight(resolution), "")>>]

buildEnhancedDownloadCommand(url, resolution, format) ==
  IF format = "audio"
    THEN [extractAudio |-> TRUE, url |-> url,
          selector |-> <<Alt("bestaudio", "", "m4a"), Alt("bestaudio", "", "mp3"),
                         Alt("bestaudio", "", ""), Alt("best", "", "")>>]
  ELSE IF format = "video"
    THEN [extractAudio |-> FALSE, url |-> url,
          selector |-> <<Alt("bestvideo", maxHeight(resolution), "mp4"),
                         Alt("bestvideo", maxHeight(resolution), ""),
                         Alt("bestvideo", "", ""), Alt("best", "", "")>>]
  ELSE [extractAudio |-> FALSE, url |-> url,
        selector |-> <<Alt("best", maxHeight(resolution), "mp4"),
                       Alt("best", maxHeight(resolution), ""),
                       Alt("best", "", "")>>]

\* if (resolution === '1080p') resolution = '720p';
\* else if (resolution === '720p') resolution = '480p';
FallbackResolution(resolution) ==
  IF resolution = "1080p" THEN "720p"
  ELSE IF resolution = "720p" THEN "480p"
  ELSE resolution

\* ------------------------------------------------------------------------
\* verifyFileIntegrity, verifyFileHeaders, findValidDownloadedFile
\* ------------------------------------------------------------------------
videoSignatures ==
  << <<0, 0, 0, 24, 102, 116, 121, 112>>,
     <<0, 0, 0, 28, 102, 116, 121, 112>>,
     <<26, 69, 223, 163>> >>

audioSignatures ==
  << <<255, 251>>, <<255, 243>>, <<255, 242>>, <<73, 68, 51>> >>

\* variant that tries every signature for every format
verifyFileHeadersAnyFormat(header, format) ==
  LET signatures == videoSignatures \o audioSignatures
  IN  \E n \in 1..Len(signatures) :
        \A i \in 1..Min(Len(signatures[n]), Len(header)) :
          header[i] = signatures[n][i]

verifyFileHeaders(header, format) ==
  LET signatures == IF format = "audio" THEN audioSignatures
                    ELSE videoSignatures \o audioSignatures
  IN  \E n \in 1..Len(signatures) :
        \A i \in 1..Min(Len(signatures[n]), Len(header)) :
          header[i] = signatures[n][i]

MsgVerifyNotFound ==
  "File verification failed: No such file or directory (os error 2)"
MsgVerifyTooSmall ==
  "File verification failed: File too small - likely corrupted"
MsgVerifyHeader ==
  "File verification failed: File header verification failed - not a valid media file"

\* the message verifyFileIntegrity throws, or "ok"
verifyFileIntegrity(filePath, format, dir) ==
  IF filePath \notin {f.name : f \in dir} THEN MsgVerifyNotFound
  ELSE LET f == CHOOSE g \in dir : g.name = filePath
           minSize == IF format = "audio" THEN MinSizeAudio ELSE MinSizeVideo
       IN  IF f.size < minSize THEN MsgVerifyTooSmall
           ELSE IF ~verifyFileHeaders(f.header, format) THEN MsgVerifyHeader
           ELSE "ok"

\* the comparator of files.sort(...)
SortCompare(a, b) ==
  LET sizeDiff == b.size - a.size
  IN  IF sizeDiff > SizeDiffMatters \/ -sizeDiff > SizeDiffMatters
        THEN sizeDiff
        ELSE b.mtime - a.mtime

\* the files that pass the filter of findValidDownloadedFile
Candidates(dir) ==
  {f \in dir : /\ f.ext \in {"mp4", "webm", "mp3", "m4a"}
               /\ ~f.hidden
               /\ f.nameLen > MinNameLength
               /\ f.size > MinSizeFind}

\* files.sort(...)[0]: no other candidate sorts before it
findValidDownloadedFile(dir) ==
  LET c == Candidates(dir)
  IN  IF c = {} THEN NoFile
      ELSE (CHOOSE f \in c : \A g \in c \ {f} : SortCompare(f, g) <= 0).name

\* [download] Destination: (.+)   |   (.+) has already been downloaded
\* the trimmed capture: a file name, BadPath, or NoFile without a match
DestinationFile(output) ==
  LET n == Len(output)
      IsName(t) == t \in FileNames
  IN  IF \E i \in 1..(n - 3) :
           /\ output[i] = "[download]" /\ output[i + 1] = " "
           /\ output[i + 2] = "Destination:" /\ output[i + 3] = " "
        THEN LET i == CHOOSE k \in 1..(n - 3) :
                        /\ output[k] = "[download]" /\ output[k + 1] = " "
                        /\ output[k + 2] = "Destination:" /\ output[k + 3] = " "
             IN  IF i + 4 <= n /\ IsName(output[i + 4])
                    /\ (i + 5 > n \/ output[i + 5] = "NL")
                   THEN output[i + 4]
                 ELSE IF i + 4 <= n /\ output[i + 4] # "NL" THEN BadPath
                 ELSE NoFile
      ELSE IF \E i \in 2..n : output[i] = "has already been downloaded"
        THEN LET i == CHOOSE k \in 2..n : output[k] = "has already been downloaded"
             IN  IF i = 3 /\ IsName(output[1]) /\ output[2] = " "
                   THEN output[1]
                   ELSE BadPath
      ELSE NoFile

\* formatFileSize, for the sizes of Files
formatFileSize(bytes) ==
  CASE bytes = 5000000 -> "4.77 MB"
    [] bytes = 2000000 -> "1.91 MB"
    [] bytes = 200000 -> "195.31 KB"
    [] bytes = 500 -> "500 Bytes"
    [] OTHER -> "0 Bytes"

\* ------------------------------------------------------------------------
\* What the tool writes to stdout
\* ------------------------------------------------------------------------
\* a progress line "[download]  <number>% of 10.00MiB"
ProgressLine(number) ==
  <<"[download]", " ", " ">> \o number \o <<"%", " ", "of", " ", "10.00MiB">>

\* the chunks a subprocess of the pipeline writes to stdout
PipelineChunks ==
  { <<"[download]", " ", "Destination:", " ", "/tmp/Video_Up_id1.mp4", "NL",
      "[download]", " ", " ", "4", "5", ".", "2", "%", " ", "of", " ",
      "10.00MiB", " ", "at", " ", "1.5MiB/s", " ", "ETA", " ", "00:10">>,
    ProgressLine(<<"1", "0", "0">>) }

\* the chunks of the parser runs: progress lines going up and down, lines a
\* point or less apart, values above the ceilings, a line without a
\* percentage, a percentage split across two reads, and two lines in one read
ParserChunks ==
  { ProgressLine(<<"0", ".", "0">>),
    ProgressLine(<<"5", ".", "0">>),
    ProgressLine(<<"1", "5", ".", "9">>),
    ProgressLine(<<"1", "6", ".", "5">>),
    ProgressLine(<<"2", "5", ".", "0">>),
    ProgressLine(<<"3", "3", ".", "3">>),
    ProgressLine(<<"4", "5", ".", "2">>),
    ProgressLine(<<"4", "5", ".", "9">>),
    ProgressLine(<<"4", "7">>),
    ProgressLine(<<"4", "8", ".", "1">>),
    ProgressLine(<<"6", "2">>),
    ProgressLine(<<"7", "1", ".", "5">>),
    ProgressLine(<<"8", "4", ".", "5">>),
    ProgressLine(<<"9", "2", ".", "3">>),
    ProgressLine(<<"1", "0", "0">>),
    <<"[info]", " ", "Downloading", " ", "1", " ", "format(s)">>,
    <<"[download]", " ", " ", "4", "5", ".">>,
    <<"2", "%", " ", "of", " ", "10.00MiB">>,
    <<"3", "0", ".", "0", "%", " ", "at", " ", "1.5MiB/s", " ", "ETA", " ", "00:10">>,
    ProgressLine(<<"6", "0">>) \o <<"NL">> \o ProgressLine(<<"5", "0">>) }

\* more chunks for the readers that keep a time or a coarser step: the line
\* "[download]  38.5% of 10.00MiB" split across two reads, and a
\* post-processing message
FragmentChunks ==
  { <<"[download]", " ", " ", "3">>,
    <<"8", ".", "5", "%", " ", "of", " ", "10.00MiB">>,
    <<"[ffmpeg]", " ", "Merging", " ", "formats">> }

Chunks == PipelineChunks \cup ParserChunks \cup FragmentChunks

\* ------------------------------------------------------------------------
\* The stdout parser: one iteration of the reader loop
\* ------------------------------------------------------------------------
\* the result of the three regular expressions on each chunk
MatchOf == [c \in Chunks |-> progressMatch(c)]

\* monitorDownloadWithTimeout: the new downloadProgress and whether the
\* iteration persists it
TimeoutParserStep(output, downloadProgress) ==
  LET m == MatchOf[output]
      newProgress == ClampProgress(m.val, downloadProgress)
  IN  IF m.matched /\ Advances(newProgress, downloadProgress)
        THEN [progress |-> newProgress, persist |-> TRUE]
        ELSE [progress |-> downloadProgress, persist |-> FALSE]

\* variant that keeps the parsed percentage
MonitorClampNoCeiling(parsed, downloadProgress) == parsed

\* Math.min(parseFloat(m[1]), 90)
MonitorClamp(parsed, downloadProgress) == Min(parsed, MonitorCeiling)

\* monitorDownloadProgress
MonitorParserStep(output, downloadProgress) ==
  LET m == MatchOf[output]
      newProgress == MonitorClamp(m.val, downloadProgress)
  IN  IF m.matched /\ Advances(newProgress, downloadProgress)
        THEN [progress |-> newProgress, persist |-> TRUE]
        ELSE [progress |-> downloadProgress, persist |-> FALSE]

\* ------------------------------------------------------------------------
\* Messages of the thrown errors
\* ------------------------------------------------------------------------
MsgSplit == "Cannot read properties of undefined (reading 'split')"
MsgYtDlp == "yt-dlp installation failed - video downloader not available"
MsgFFmpeg == "FFmpeg not available - video processing will fail"
MsgAttempts == "Download failed after 3 attempts"
MsgNoValidFile == "Download failed - no valid file created"
MsgTimeout == "Download timeout"
MsgExit == "Download failed: <stderr>"
MsgSpawn == "Failed to spawn: yt-dlp"
MsgReadFile == "No such file or directory (os error 2)"
MsgUploadSmall == "File too small for upload - corrupted download"
MsgUpload == "Upload failed: <storage error>"
MsgUrl == "Failed to generate download URL"
SignedUrl == "https://storage/downloads/signed"

\* ------------------------------------------------------------------------
\* State
\* ------------------------------------------------------------------------
JobIds == {"A", "B"}
RequestJobId == "A"
RequestUrl == "https://youtube.com/watch?v=1"
AttemptIds == 1..(maxAttempts + 1)

\* the files a run of the tool may leave in /tmp for a format
ToolOutput(fmt) ==
  IF fmt = "audio"
    THEN {f \in Files : f.name \in {"/tmp/Song_Up_id5.mp3", "/tmp/Video_Up_id1.mp4"}}
    ELSE {f \in Files : f.name \in {"/tmp/Video_Up_id1.mp4", "/tmp/Tiny_Up_id2.mp4"}}

VARIABLES
  jobs,             \* the download_jobs table: job id -> record
  pc,               \* position of the handler / downloadVideoProcess
  response,         \* the handler's HTTP response
  resolution,       \* local variable of executeDownloadWithValidation
  format,           \* requested format
  ytDlpArgs,        \* the argument vector built before the retry loop
  attempts,         \* attempt counter of the retry loop
  error,            \* the error thrown to the catch of downloadVideoProcess
  downloadedFile,   \* the path returned by executeDownloadWithValidation
  proc,             \* per attempt: state of the subprocess
  argv,             \* per attempt: the arguments the subprocess was spawned with
  streamsOpen,      \* per attempt: stdout and stderr are still open
  nRead,            \* number of stdout chunks read so far
  errorOutput,      \* per attempt: the stderr text accumulated so far
  reader,           \* per attempt: state of the stdout reader loop
  errReader,        \* per attempt: state of the stderr reader loop
  downloadProgress, \* per attempt: the reader's running progress
  hint,             \* per attempt: destination path parsed from stdout
  timer,            \* per attempt: state of the timeout timer
  tmp,              \* the files present in /tmp
  uploaded,         \* the object has been uploaded to storage
  outcome,          \* how the last attempt ended (history)
  failCause,        \* the stage that threw the final error (history)
  stages,           \* the stages that succeeded, in order (history)
  lastWrite,        \* the last update sent to the table and the one before (history)
  terminalWrites,   \* number of updates that set a terminal status (history)
  cleanup,          \* result of removing the temp file
  pipe,             \* chunks buffered in the subprocess's stdout and stderr pipes
  progressData,     \* local variable of the synchronous handler
  availableFormats, \* the heights getAvailableFormats has parsed, in order
  selectedFormat,   \* the result of validateAndSelectFormat
  now,              \* Date.now(), in seconds since the spawn
  lastUpdateTime,   \* local variable of the reader loop that keeps a time
  downloadJobs,     \* state of the useDownloads hook: the client's list of jobs
  channel,          \* realtime events sent to the client, not yet delivered
  snapshot,         \* the select of loadDownloadJobs: its state and its rows
  received          \* per job: progress of the last UPDATE event delivered (history)

vars == <<jobs, pc, response, resolution, format, ytDlpArgs, attempts, error,
          downloadedFile, proc, argv, streamsOpen, nRead, errorOutput,
          reader, errReader, downloadProgress, hint,
          timer, tmp, uploaded, outcome, failCause, stages, lastWrite,
          terminalWrites, cleanup, pipe, progressData, availableFormats,
          selectedFormat, now, lastUpdateTime, downloadJobs, channel,
          snapshot, received>>

procVars == <<proc, argv, streamsOpen>>
readerVars == <<reader, errReader, downloadProgress, hint, nRead, errorOutput>>
localVars == <<resolution, format, ytDlpArgs, attempts, error, downloadedFile>>
histVars == <<outcome, failCause, stages>>
syncVars == <<pipe, progressData>>
selectVars == <<availableFormats, selectedFormat>>
clockVars == <<now, lastUpdateTime>>
hookVars == <<downloadJobs, channel, snapshot, received>>

\* the hook is not mounted
NoSnapshot == [state |-> "none", rows |-> <<>>]
NoneReceived == [j \in JobIds |-> -1]

\* both pipes of a subprocess are empty.  The readers of
\* monitorDownloadWithTimeout take what the subprocess writes as it is
\* written, so the pipes stay empty there; the synchronous handler is
\* modelled with the pipes filling up.
EmptyPipe == [stdout |-> 0, stderr |-> 0]

Terminal == {"completed", "failed"}

\* the record startDownload inserts
NewJob(url, res, fmt) ==
  [video_url |-> url, video_title |-> "Title", video_thumbnail |-> "Thumbnail",
   video_duration |-> "3:32", video_uploader |-> "Up",
   quality |-> <<res, fmt>>, status |-> "pending",
   progress |-> 0, download_speed |-> Null, eta |-> Null,
   error_message |-> Null, file_size |-> Null, download_url |-> Null]

\* supabase.from('download_jobs').update(fields).eq('id', id)
\* variant whose filter matches the record of the other job
UpdateTargetOther(id) == CHOOSE j \in {"A", "B"} : j # id

UpdateTarget(id) == id

Update(table, id, fields) ==
  IF UpdateTarget(id) \in DOMAIN table
    THEN [table EXCEPT ![UpdateTarget(id)] = fields @@ @]
    ELSE table

\* history of an update: who sent it, the status and progress it sets, and
\* who sent the update before it with which progress
WriteOf(src, fields, before) ==
  [src |-> src,
   status |-> IF "status" \in DOMAIN fields THEN fields.status ELSE Null,
   progress |-> fields.progress,
   prevSrc |-> before.src,
   prevProgress |-> before.progress]

IsTerminalWrite(fields) ==
  "status" \in DOMAIN fields /\ fields.status \in Terminal

\* one update of the job record, with its history
Write(src, fields) ==
  /\ jobs' = Update(jobs, RequestJobId, fields)
  /\ lastWrite' = WriteOf(src, fields, lastWrite)
  /\ terminalWrites' = terminalWrites + (IF IsTerminalWrite(fields) THEN 1 ELSE 0)

NoWrite == UNCHANGED <<jobs, lastWrite, terminalWrites>>

Init ==
  /\ \E q \in Requests \cup {NoQuality} : resolution = q[1] /\ format = q[2]
  /\ jobs = [j \in JobIds |->
               IF resolution = Null THEN NewJob(RequestUrl, "1080p", "both")
               ELSE NewJob(RequestUrl, resolution, format)]
  /\ pc = "idle"
  /\ response = "none"
  /\ ytDlpArgs = Null
  /\ attempts = 0
  /\ error = Null
  /\ downloadedFile = NoFile
  /\ proc = [a \in AttemptIds |-> "none"]
  /\ argv = [a \in AttemptIds |-> Null]
  /\ streamsOpen = [a \in AttemptIds |-> FALSE]
  /\ nRead = 0
  /\ errorOutput = [a \in AttemptIds |-> ""]
  /\ reader = [a \in AttemptIds |-> "none"]
  /\ errReader = [a \in AttemptIds |-> "none"]
  /\ downloadProgress = [a \in AttemptIds |-> 0]
  /\ hint = [a \in AttemptIds |-> NoFile]
  /\ timer = [a \in AttemptIds |-> "unset"]
  /\ tmp = {}
  /\ uploaded = FALSE
  /\ outcome = "none"
  /\ failCause = "none"
  /\ stages = <<>>
  /\ lastWrite = [src |-> "insert", status |-> "pending", progress |-> 0,
                  prevSrc |-> "none", prevProgress |-> 0]
  /\ terminalWrites = 0
  /\ cleanup = "none"
  /\ pipe = EmptyPipe
  /\ progressData = Null
  /\ availableFormats = <<>>
  /\ selectedFormat = Null
  /\ now = 0
  /\ lastUpdateTime = 0
  /\ downloadJobs = <<>> /\ channel = <<>>
  /\ snapshot = NoSnapshot /\ received = NoneReceived

\* ------------------------------------------------------------------------
\* The handler
\* ------------------------------------------------------------------------
\* variant of the handler's update that leaves the status as it is
HandlerFieldsNoStatus ==
  [progress |-> Pct(5), download_speed |-> "Initializing...",
   eta |-> "Starting download process..."]

\* the fields of the handler's update
HandlerFields ==
  [status |-> "downloading", progress |-> Pct(5),
   download_speed |-> "Initializing...",
   eta |-> "Starting download process..."]

\* serve: the request parses; the record is set to downloading, the
\* background process is started and the acceptance is returned
HandlerAccept ==
  /\ pc = "idle"
  /\ Write("handler", HandlerFields)
  /\ pc' = "validate_env"
  /\ response' = "success"
  /\ UNCHANGED <<procVars, readerVars, localVars, histVars, timer, tmp,
                 uploaded, cleanup, syncVars, selectVars, clockVars, hookVars>>

\* serve: req.json() throws; the catch answers 500 and starts nothing
HandlerReject ==
  /\ pc = "idle"
  /\ pc' = "rejected"
  /\ response' = "error500"
  /\ NoWrite
  /\ UNCHANGED <<procVars, readerVars, localVars, histVars, timer, tmp,
                 uploaded, cleanup, syncVars, selectVars, clockVars, hookVars>>

\* ------------------------------------------------------------------------
\* downloadVideoProcess, phase 1: validateAndSetupEnvironment
\* ------------------------------------------------------------------------
ValidateEnvUpdate ==
  /\ pc = "validate_env"
  /\ Write("stage", [progress |-> Pct(8),
                     download_speed |-> "Validating environment...",
                     eta |-> "Checking system requirements"])
  /\ pc' = "check_env"
  /\ UNCHANGED <<response, procVars, readerVars, localVars, histVars, timer,
                 tmp, uploaded, cleanup, syncVars, selectVars, clockVars, hookVars>>

\* variant in which a missing tool is only logged
EnvironmentErrorLogged == "exec_start"

\* where an error thrown by validateAndSetupEnvironment goes: the catch of
\* downloadVideoProcess
EnvironmentErrorThrown == "catch"

\* checkYtDlp, installYtDlp, checkFFmpeg, and quality.split('_'), which
\* throws when the request carried no quality
CheckEnvironment ==
  /\ pc = "check_env"
  /\ \E ytDlpAvailable \in BOOLEAN, installSuccess \in BOOLEAN,
        ffmpegAvailable \in BOOLEAN :
       IF ~ytDlpAvailable /\ ~installSuccess
         THEN /\ error' = MsgYtDlp
              /\ failCause' = "unavailable"
              /\ pc' = EnvironmentErrorThrown
       ELSE IF ~ffmpegAvailable
         THEN /\ error' = MsgFFmpeg
              /\ failCause' = "unavailable"
              /\ pc' = "catch"
       ELSE IF resolution = Null
         THEN /\ error' = MsgSplit
              /\ failCause' = "request"
              /\ pc' = "catch"
       ELSE /\ pc' = "exec_start"
            /\ UNCHANGED <<error, failCause>>
  /\ NoWrite
  /\ UNCHANGED <<response, procVars, readerVars, resolution, format, ytDlpArgs,
                 attempts, downloadedFile, outcome, stages, timer, tmp,
                 uploaded, cleanup, syncVars, selectVars, clockVars, hookVars>>

\* ------------------------------------------------------------------------
\* phase 2: executeDownloadWithValidation
\* ------------------------------------------------------------------------
\* variant that takes one more turn
LoopContinuesOnceMore(n) == n <= maxAttempts

\* while (attempts < maxAttempts)
LoopContinues(n) == n < maxAttempts

\* if (attempts < maxAttempts), in the catch of the loop
CatchRetries(n) == n < maxAttempts

\* the arguments the next attempt is spawned with: ytDlpArgs is built once,
\* before the loop
SpawnArgs(args, res, fmt) == args

\* One turn of the retry loop up to its first await.  prev is how the
\* previous attempt ended, procs the subprocesses so far, args and res the
\* values of ytDlpArgs and resolution at this point.  Either the loop is over and the final error is
\* thrown, or attempts++ and process.spawn(), which throws or starts the
\* subprocess; monitorDownloadWithTimeout then sets its timer and starts
\* its two readers.
LoopIteration(prev, procs, args, res, spawnOk) ==
  IF ~LoopContinues(attempts)
    THEN /\ error' = MsgAttempts
         /\ failCause' = IF prev = "no_file" THEN "notfound" ELSE "process"
         /\ pc' = "catch"
         /\ outcome' = prev
         /\ proc' = procs
         /\ UNCHANGED <<attempts, argv, streamsOpen, reader, errReader,
                        downloadProgress, timer>>
  ELSE IF ~spawnOk
    THEN /\ attempts' = attempts + 1
         /\ outcome' = "spawn_fail"
         /\ pc' = "exec_catch"
         /\ proc' = procs
         /\ UNCHANGED <<error, failCause, argv, streamsOpen, reader,
                        errReader, downloadProgress, timer>>
  ELSE LET a == attempts + 1
       IN  /\ attempts' = a
           /\ proc' = [procs EXCEPT ![a] = "running"]
           /\ argv' = [argv EXCEPT ![a] = SpawnArgs(args, res, format)]
           /\ streamsOpen' = [streamsOpen EXCEPT ![a] = TRUE]
           /\ reader' = [reader EXCEPT ![a] = "reading"]
           /\ errReader' = [errReader EXCEPT ![a] = "reading"]
           /\ downloadProgress' = [downloadProgress EXCEPT ![a] = InitialDownloadProgress]
           /\ timer' = [timer EXCEPT ![a] = "armed"]
           /\ pc' = "race"
           /\ outcome' = prev
           /\ UNCHANGED <<error, failCause>>

\* the update before the loop, buildEnhancedDownloadCommand, and the first
\* turn of the loop
ExecStart ==
  /\ pc = "exec_start"
  /\ Write("stage", [progress |-> Pct(15),
                     download_speed |-> "Starting download...",
                     eta |-> "Connecting to video source"])
  /\ ytDlpArgs' = buildEnhancedDownloadCommand(RequestUrl, resolution, format)
  /\ UNCHANGED resolution
  /\ \E spawnOk \in BOOLEAN : LoopIteration("none", proc,
         buildEnhancedDownloadCommand(RequestUrl, resolution, format),
         resolution, spawnOk)
  /\ UNCHANGED <<response, format, downloadedFile, hint, nRead, errorOutput,
                 stages, tmp, uploaded, cleanup, syncVars, selectVars, clockVars, hookVars>>

\* variant that resets the progress
RetryProgressZero(n) == Pct(0)

\* the progress written before a retry
RetryProgress(n) == Pct(10 + n * 5)

\* the catch of the retry loop, and the next turn of the loop
ExecCatch ==
  /\ pc = "exec_catch"
  /\ IF CatchRetries(attempts)
       THEN /\ resolution' = FallbackResolution(resolution)
            /\ Write("retry", [progress |-> RetryProgress(attempts),
                               download_speed |-> "Retry...",
                               eta |-> "Attempting with different quality"])
       ELSE /\ UNCHANGED resolution
            /\ NoWrite
  /\ UNCHANGED ytDlpArgs
  /\ \E spawnOk \in BOOLEAN : LoopIteration(outcome, proc, ytDlpArgs,
         IF CatchRetries(attempts) THEN FallbackResolution(resolution)
         ELSE resolution, spawnOk)
  /\ UNCHANGED <<response, format, downloadedFile, hint, nRead, errorOutput,
                 stages, tmp, uploaded, cleanup, syncVars, selectVars, clockVars, hookVars>>

\* ------------------------------------------------------------------------
\* The extraction subprocess (environment)
\* ------------------------------------------------------------------------
\* What the subprocess writes is chosen when a reader reads it: a read
\* returns a chunk that is in the pipe, and the pipe may hold data after the
\* subprocess closed it or ended.
\* Subprocess states: "running", "exited_ok" and "exited_fail" until its
\* status has been read, "signalled" once child.kill() was sent to a running
\* subprocess, "killed" once it died of the signal, and "ended" for a
\* subprocess that exited by itself and whose status nobody reads any more.

\* the subprocess closes its stdout and stderr and keeps running
ProcCloseStreams(a) ==
  /\ proc[a] = "running"
  /\ streamsOpen[a]
  /\ streamsOpen' = [streamsOpen EXCEPT ![a] = FALSE]
  /\ NoWrite
  /\ UNCHANGED <<pc, response, proc, argv, readerVars, localVars, histVars,
                 timer, tmp, uploaded, cleanup, syncVars, selectVars, clockVars, hookVars>>

\* the subprocess exits with status 0, leaving a file in /tmp or none
ProcExitOk(a) ==
  /\ proc[a] = "running"
  /\ proc' = [proc EXCEPT ![a] = "exited_ok"]
  /\ \E produced \in {{}} \cup {{f} : f \in ToolOutput(format)} :
       tmp' = tmp \cup produced
  /\ streamsOpen' = [streamsOpen EXCEPT ![a] = FALSE]
  /\ NoWrite
  /\ UNCHANGED <<pc, response, argv, readerVars, localVars, histVars, timer,
                 uploaded, cleanup, syncVars, selectVars, clockVars, hookVars>>

\* the subprocess exits with a non-zero status
ProcExitFail(a) ==
  /\ proc[a] = "running"
  /\ proc' = [proc EXCEPT ![a] = "exited_fail"]
  /\ streamsOpen' = [streamsOpen EXCEPT ![a] = FALSE]
  /\ NoWrite
  /\ UNCHANGED <<pc, response, argv, readerVars, localVars, histVars, timer,
                 tmp, uploaded, cleanup, syncVars, selectVars, clockVars, hookVars>>

\* the subprocess dies of the signal child.kill() sent
ProcDie(a) ==
  /\ proc[a] = "signalled"
  /\ proc' = [proc EXCEPT ![a] = "killed"]
  /\ NoWrite
  /\ UNCHANGED <<pc, response, argv, streamsOpen, readerVars, localVars,
                 histVars, timer, tmp, uploaded, cleanup, syncVars, selectVars, clockVars, hookVars>>

\* ------------------------------------------------------------------------
\* monitorDownloadWithTimeout
\* ------------------------------------------------------------------------
\* Reader states: "reading" while the race of the attempt is pending and
\* "done" when the loop has ended; after the timeout abandoned the attempt,
\* the stdout reader is "stale" while it can still persist something, and a
\* reader that can no longer touch anything (blocked in read() or ended) is
\* "detached".

\* variant in which every timer rejects the race that is pending
RacePendingShared(a) == pc = "race"

\* the race of attempt a (Promise.race) has not settled yet
RacePending(a) == pc = "race" /\ attempts = a

\* Promise.all([progressPromise, errorPromise]) wins the race of attempt a
\* when both readers have finished while the race is still pending
RaceAfterReaders(a, rd, erd) ==
  IF RacePending(a) /\ rd = "done" /\ erd = "done"
    THEN "await_status" ELSE pc

\* child.kill(): signals a running child; throws (caught) on an exited one
KillChild(procs, a) ==
  IF procs[a] = "running" THEN [procs EXCEPT ![a] = "signalled"]
  ELSE [procs EXCEPT ![a] = "ended"]

\* the reader loop of an abandoned attempt keeps running: it still persists
\* what it parses
StaleReaderWrites(a) == TRUE

\* some chunk would still make a reader with this progress persist a value
CanPersist(dp, budget) ==
  /\ budget > 0
  /\ \E c \in PipelineChunks : TimeoutParserStep(c, dp).persist

\* the body of the stdout reader loop of attempt a for the chunk read() has
\* returned: progress parsing with its update, and file detection.  A stale
\* reader that can persist nothing any more becomes detached.
ReadChunk(a, output) ==
  LET step == TimeoutParserStep(output, downloadProgress[a])
      dest == DestinationFile(output)
      Live(b) == CanPersist(IF b = a THEN step.progress ELSE downloadProgress[b],
                            MaxChunks - nRead - 1)
  IN  /\ nRead' = nRead + 1
      /\ IF step.persist /\ (reader[a] = "reading" \/ StaleReaderWrites(a))
           THEN Write("parser", [progress |-> step.progress,
                                 download_speed |-> SpeedText(output),
                                 eta |-> EtaText(output)])
           ELSE NoWrite
      /\ hint' = [hint EXCEPT ![a] =
                    IF dest # NoFile /\ reader[a] = "reading" THEN dest ELSE @]
      /\ reader' = [b \in AttemptIds |->
                      IF reader[b] = "stale" /\ ~Live(b)
                        THEN "detached" ELSE reader[b]]
      /\ downloadProgress' =
           [b \in AttemptIds |->
              IF reader[b] = "stale" /\ ~Live(b) THEN 0
              ELSE IF b = a THEN step.progress
              ELSE downloadProgress[b]]

\* one iteration of the stdout reader loop of attempt a: read() returns a
\* chunk, or done once the stream is closed
StdoutRead(a) ==
  /\ reader[a] \in {"reading", "stale"}
  /\ \/ /\ nRead < MaxChunks
        /\ \E output \in PipelineChunks : ReadChunk(a, output)
        /\ UNCHANGED pc
     \/ /\ reader[a] = "reading"
        /\ ~streamsOpen[a]
        /\ reader' = [reader EXCEPT ![a] = "done"]
        /\ pc' = RaceAfterReaders(a, "done", errReader[a])
        /\ NoWrite
        /\ downloadProgress' = [downloadProgress EXCEPT ![a] = 0]
        /\ UNCHANGED <<hint, nRead>>
  /\ UNCHANGED <<response, procVars, errReader, errorOutput, localVars,
                 histVars, timer, tmp, uploaded, cleanup, syncVars, selectVars, clockVars, hookVars>>

\* one iteration of the stderr reader loop of attempt a: errorOutput += error,
\* or done once the stream is closed
StderrRead(a) ==
  /\ errReader[a] = "reading"
  /\ \/ /\ errorOutput[a] = ""
        /\ errorOutput' = [errorOutput EXCEPT ![a] = "<stderr>"]
        /\ UNCHANGED <<pc, errReader>>
     \/ /\ ~streamsOpen[a]
        /\ errReader' = [errReader EXCEPT ![a] = "done"]
        /\ pc' = RaceAfterReaders(a, reader[a], "done")
        /\ UNCHANGED errorOutput
  /\ NoWrite
  /\ UNCHANGED <<response, procVars, reader, downloadProgress, hint, nRead,
                 localVars, histVars, timer, tmp, uploaded, cleanup, syncVars, selectVars, clockVars, hookVars>>

\* setTimeout(() => reject(new Error('Download timeout')), timeoutMs) fires,
\* the timers in the order they were set: a pending race rejects, the catch
\* kills the child and rethrows; the two readers of the attempt are left
\* running
TimerFire(a) ==
  /\ timer[a] = "armed"
  /\ \A b \in AttemptIds : b < a => timer[b] # "armed"
  /\ timer' = [timer EXCEPT ![a] = "fired"]
  /\ IF RacePending(a)
       THEN LET live == reader[a] = "reading"
                          /\ CanPersist(downloadProgress[a], MaxChunks - nRead)
            IN  /\ proc' = KillChild(proc, a)
                /\ streamsOpen' = [streamsOpen EXCEPT ![a] = FALSE]
                /\ outcome' = "timeout"
                /\ pc' = "exec_catch"
                /\ reader' = [reader EXCEPT ![a] = IF live THEN "stale" ELSE "detached"]
                /\ errReader' = [errReader EXCEPT ![a] = "detached"]
                /\ downloadProgress' = [downloadProgress EXCEPT ![a] = IF live THEN @ ELSE 0]
                /\ hint' = [hint EXCEPT ![a] = NoFile]
                /\ errorOutput' = [errorOutput EXCEPT ![a] = ""]
       ELSE UNCHANGED <<proc, streamsOpen, outcome, pc, reader, errReader,
                        downloadProgress, hint, errorOutput>>
  /\ NoWrite
  /\ UNCHANGED <<response, argv, nRead, localVars, failCause, stages, tmp,
                 uploaded, cleanup, syncVars, selectVars, clockVars, hookVars>>

\* await child.status, the exit check and the file detection; a failed exit
\* throws into the catch of the loop, no file makes the loop take its next
\* turn, a file is returned to downloadVideoProcess
AwaitStatus ==
  /\ pc = "await_status"
  /\ proc[attempts] \in {"exited_ok", "exited_fail"}
  /\ LET a == attempts
         file == IF hint[a] # NoFile THEN hint[a] ELSE findValidDownloadedFile(tmp)
         ended == [proc EXCEPT ![a] = "ended"]
     IN  IF proc[a] = "exited_fail"
           THEN /\ outcome' = "exit_fail"
                /\ pc' = "exec_catch"
                /\ proc' = ended
                /\ UNCHANGED <<downloadedFile, attempts, argv, streamsOpen,
                               reader, errReader, downloadProgress, timer,
                               error, failCause>>
         ELSE IF file = NoFile
           THEN /\ UNCHANGED downloadedFile
                /\ \E spawnOk \in BOOLEAN :
                     LoopIteration("no_file", ended, ytDlpArgs, resolution, spawnOk)
         ELSE /\ outcome' = "ok"
              /\ downloadedFile' = file
              /\ pc' = "verify"
              /\ proc' = ended
              /\ UNCHANGED <<attempts, argv, streamsOpen, reader, errReader,
                             downloadProgress, timer, error, failCause>>
  /\ hint' = [hint EXCEPT ![attempts] = NoFile]
  /\ errorOutput' = [errorOutput EXCEPT ![attempts] = ""]
  /\ NoWrite
  /\ UNCHANGED <<response, nRead, resolution, ytDlpArgs, format, stages, tmp,
                 uploaded, cleanup, syncVars, selectVars, clockVars, hookVars>>

\* ------------------------------------------------------------------------
\* phase 3: verifyFileIntegrity, and uploadAndComplete
\* ------------------------------------------------------------------------
Verify ==
  /\ pc = "verify"
  /\ LET r == verifyFileIntegrity(downloadedFile, format, tmp)
     IN  IF r = "ok"
           THEN /\ stages' = Append(stages, "verified")
                /\ pc' = "upload_start"
                /\ UNCHANGED <<error, failCause>>
           ELSE /\ error' = r
                /\ failCause' = "validation"
                /\ pc' = "catch"
                /\ UNCHANGED stages
  /\ NoWrite
  /\ UNCHANGED <<response, procVars, readerVars, resolution, format, ytDlpArgs,
                 attempts, downloadedFile, outcome, timer, tmp, uploaded,
                 cleanup, syncVars, selectVars, clockVars, hookVars>>

\* variant whose upload progress lies below the ceiling of the parser
UploadProgressLow == Pct(80)

\* progress: 90 of the update that starts the upload
UploadProgress == Pct(90)

UploadStart ==
  /\ pc = "upload_start"
  /\ Write("stage", [progress |-> UploadProgress, download_speed |-> "Uploading...",
                     eta |-> "Almost done"])
  /\ pc' = "upload"
  /\ UNCHANGED <<response, procVars, readerVars, localVars, histVars, timer,
                 tmp, uploaded, cleanup, syncVars, selectVars, clockVars, hookVars>>

\* Deno.readFile, Deno.stat, the size check and storage.upload
Upload ==
  /\ pc = "upload"
  /\ \E uploadOk \in BOOLEAN :
       IF downloadedFile \notin {f.name : f \in tmp}
         THEN /\ error' = MsgReadFile
              /\ failCause' = "notfound"
              /\ pc' = "catch"
              /\ UNCHANGED <<uploaded, stages>>
       ELSE IF FileOf(downloadedFile).size < MinSizeUpload
         THEN /\ error' = MsgUploadSmall
              /\ failCause' = "validation"
              /\ pc' = "catch"
              /\ UNCHANGED <<uploaded, stages>>
       ELSE IF ~uploadOk
         THEN /\ error' = MsgUpload
              /\ failCause' = "upload"
              /\ pc' = "catch"
              /\ UNCHANGED <<uploaded, stages>>
       ELSE /\ uploaded' = TRUE
            /\ stages' = Append(stages, "uploaded")
            /\ pc' = "sign"
            /\ UNCHANGED <<error, failCause>>
  /\ NoWrite
  /\ UNCHANGED <<response, procVars, readerVars, resolution, format, ytDlpArgs,
                 attempts, downloadedFile, outcome, timer, tmp, cleanup, syncVars, selectVars, clockVars, hookVars>>

\* storage.createSignedUrl(storageFileName, 7200)
Sign ==
  /\ pc = "sign"
  /\ \E urlOk \in BOOLEAN :
       IF urlOk
         THEN /\ stages' = Append(stages, "signed")
              /\ pc' = "complete"
              /\ UNCHANGED <<error, failCause>>
         ELSE /\ error' = MsgUrl
              /\ failCause' = "url"
              /\ pc' = "catch"
              /\ UNCHANGED stages
  /\ NoWrite
  /\ UNCHANGED <<response, procVars, readerVars, resolution, format, ytDlpArgs,
                 attempts, downloadedFile, outcome, timer, tmp, uploaded,
                 cleanup, syncVars, selectVars, clockVars, hookVars>>

\* the fields of the update that marks the job completed
CompletedFields(size, url) ==
  [status |-> "completed", progress |-> Pct(100), download_speed |-> Null,
   eta |-> Null, file_size |-> formatFileSize(size), download_url |-> url]

CompleteWrite ==
  /\ pc = "complete"
  /\ Write("complete", CompletedFields(FileOf(downloadedFile).size, SignedUrl))
  /\ pc' = "cleanup"
  /\ UNCHANGED <<response, procVars, readerVars, localVars, histVars, timer,
                 tmp, uploaded, cleanup, syncVars, selectVars, clockVars, hookVars>>

\* variant in which a failed removal reaches the catch of downloadVideoProcess
AfterCleanupThrows(removed) == IF removed THEN "done" ELSE "catch"

\* where control goes after Deno.remove(filePath): a failure is caught and
\* logged
AfterCleanup(removed) == "done"

CleanupFile ==
  /\ pc = "cleanup"
  /\ \E removed \in BOOLEAN :
       /\ tmp' = IF removed THEN {f \in tmp : f.name # downloadedFile} ELSE tmp
       /\ cleanup' = IF removed THEN "removed" ELSE "failed"
       /\ pc' = AfterCleanup(removed)
       /\ error' = IF AfterCleanup(removed) = "catch" THEN MsgReadFile ELSE error
  /\ NoWrite
  /\ UNCHANGED <<response, procVars, readerVars, resolution, format, ytDlpArgs,
                 attempts, downloadedFile, histVars, timer, uploaded,
                 syncVars, selectVars, clockVars, hookVars>>

\* variant that records no message
FailedFieldsNoMessage(message) ==
  [status |-> "failed", progress |-> 0, download_speed |-> Null, eta |-> Null]

\* variant that leaves download_speed and eta as they were
FailedFieldsKeepsSpeed(message) ==
  [status |-> "failed", error_message |-> message, progress |-> 0]

\* the fields of the update in the catch of downloadVideoProcess
FailedFields(message) ==
  [status |-> "failed", error_message |-> message, progress |-> 0,
   download_speed |-> Null, eta |-> Null]

FailedWrite ==
  /\ pc = "catch"
  /\ Write("catch", FailedFields(IF error = Null THEN "Download failed" ELSE error))
  /\ pc' = "done"
  /\ UNCHANGED <<response, procVars, readerVars, localVars, histVars, timer,
                 tmp, uploaded, cleanup, syncVars, selectVars, clockVars, hookVars>>

\* ------------------------------------------------------------------------
\* Specification
\* ------------------------------------------------------------------------
Pipeline ==
  \/ HandlerAccept \/ HandlerReject
  \/ ValidateEnvUpdate \/ CheckEnvironment
  \/ ExecStart \/ ExecCatch
  \/ AwaitStatus \/ Verify \/ UploadStart \/ Upload \/ Sign
  \/ CompleteWrite \/ CleanupFile \/ FailedWrite

Readers == \E a \in AttemptIds : StdoutRead(a) \/ StderrRead(a) \/ TimerFire(a)

Subprocess ==
  \E a \in AttemptIds :
    \/ ProcCloseStreams(a)
    \/ ProcExitOk(a) \/ ProcExitFail(a) \/ ProcDie(a)

Next == Pipeline \/ Readers \/ Subprocess

Spec == Init /\ [][Next]_vars

\* Scheduling: every continuation of the pipeline, every reader iteration
\* whose read() can return, every timer that is set and the death of a
\* signalled subprocess eventually happen.  Nothing makes a running
\* subprocess close its streams or exit.
Fairness ==
  /\ WF_vars(Pipeline)
  /\ \A a \in AttemptIds :
       /\ WF_vars(StdoutRead(a))
       /\ WF_vars(StderrRead(a))
       /\ WF_vars(TimerFire(a))
       /\ WF_vars(ProcDie(a))

LiveSpec == Spec /\ Fairness

\* ------------------------------------------------------------------------
\* The parser runs: one reader of monitorDownloadWithTimeout and one of
\* monitorDownloadProgress, each fed up to MaxParse chunks of ParserChunks
\* ------------------------------------------------------------------------
\* the state in which the reader starts: the record is downloading at the
\* progress written before the spawn, the subprocess of the only attempt
\* runs; mode is "race" for monitorDownloadWithTimeout and "monitor" for
\* monitorDownloadProgress
InitParse ==
  \E mode \in {"race", "monitor"} :
    LET start == IF mode = "race" THEN InitialDownloadProgress
                 ELSE MonitorInitialProgress
        first(v, other) == [a \in AttemptIds |-> IF a = 1 THEN v ELSE other]
    IN  /\ pc = mode
        /\ resolution = "1080p" /\ format = "both"
        /\ jobs = [j \in JobIds |->
                     IF j = RequestJobId
                       THEN [progress |-> start, status |-> "downloading",
                             download_speed |-> "Starting download...",
                             eta |-> "Connecting to video source"]
                            @@ NewJob(RequestUrl, "1080p", "both")
                       ELSE NewJob(RequestUrl, "1080p", "both")]
        /\ response = "success"
        /\ ytDlpArgs = buildEnhancedDownloadCommand(RequestUrl, "1080p", "both")
        /\ attempts = 1
        /\ error = Null
        /\ downloadedFile = NoFile
        /\ proc = first("running", "none")
        /\ argv = first(ytDlpArgs, Null)
        /\ streamsOpen = first(TRUE, FALSE)
        /\ nRead = 0
        /\ errorOutput = [a \in AttemptIds |-> ""]
        /\ reader = first("reading", "none")
        /\ errReader = first("reading", "none")
        /\ downloadProgress = first(start, 0)
        /\ hint = [a \in AttemptIds |-> NoFile]
        /\ timer = first(IF mode = "race" THEN "armed" ELSE "unset", "unset")
        /\ tmp = {}
        /\ uploaded = FALSE
        /\ outcome = "none"
        /\ failCause = "none"
        /\ stages = <<>>
        /\ lastWrite = [src |-> "stage", status |-> Null, progress |-> start,
                        prevSrc |-> "stage",
                        prevProgress |-> IF mode = "race" THEN Pct(8) ELSE Pct(5)]
        /\ terminalWrites = 0
        /\ cleanup = "none"
        /\ pipe = EmptyPipe
        /\ progressData = Null
        /\ availableFormats = <<>>
        /\ selectedFormat = Null
        /\ now = 0
        /\ lastUpdateTime = 0
        /\ downloadJobs = <<>> /\ channel = <<>>
        /\ snapshot = NoSnapshot /\ received = NoneReceived

\* one iteration of the stdout reader loop of monitorDownloadWithTimeout
ParserReadTimeout ==
  /\ pc = "race"
  /\ reader[1] = "reading"
  /\ nRead < MaxParse
  /\ \E output \in ParserChunks : ReadChunk(1, output)
  /\ UNCHANGED <<pc, response, procVars, errReader, errorOutput, localVars,
                 histVars, timer, tmp, uploaded, cleanup, syncVars, selectVars, clockVars, hookVars>>

\* one iteration of the stdout reader loop of monitorDownloadProgress
ParserReadMonitor ==
  /\ pc = "monitor"
  /\ reader[1] = "reading"
  /\ nRead < MaxParse
  /\ \E output \in ParserChunks :
       LET step == MonitorParserStep(output, downloadProgress[1])
       IN  /\ nRead' = nRead + 1
           /\ downloadProgress' = [downloadProgress EXCEPT ![1] = step.progress]
           /\ IF step.persist
                THEN Write("parser", [progress |-> step.progress,
                                      download_speed |-> SpeedText(output),
                                      eta |-> EtaText(output)])
                ELSE NoWrite
  /\ UNCHANGED <<pc, response, procVars, reader, errReader, hint, errorOutput,
                 localVars, histVars, timer, tmp, uploaded, cleanup, syncVars, selectVars, clockVars, hookVars>>

NextParse == ParserReadTimeout \/ ParserReadMonitor

SpecParse == InitParse /\ [][NextParse]_vars

\* ------------------------------------------------------------------------
\* The reader runs: the stdout reader loops of the three versions of the
\* function that limit their updates, each fed up to MaxParse chunks while
\* time passes.  Mode "race" is monitorDownloadWithTimeout, "interval" the
\* loop that also updates when 2000 ms have passed, "coarse" the loop that
\* asks for more than 2 points.
\* ------------------------------------------------------------------------
\* the latest time of a run, in seconds
MaxTime == 3

LegacyInitialProgress == 5 * Scale
LegacyCeiling == 90 * Scale
CoarseDelta == 2 * Scale
MinInterval == 2
PostProcessingProgress == 85 * Scale

ReaderChunks == ParserChunks \cup FragmentChunks

\* variant for which the interval has always passed
IntervalElapsedAlways(t, last) == TRUE

\* Date.now() - lastUpdateTime > 2000
IntervalElapsed(t, last) == t - last > MinInterval

\* the loop with lastUpdateTime: Math.min(parseFloat(m[1]), 90), persisted
\* on a significant change or when enough time has passed
IntervalParserStep(output, dp, t, last) ==
  LET m == MatchOf[output]
      newProgress == Min(m.val, LegacyCeiling)
  IN  IF m.matched /\ (Advances(newProgress, dp) \/ IntervalElapsed(t, last))
        THEN [progress |-> newProgress, persist |-> TRUE]
        ELSE [progress |-> dp, persist |-> FALSE]

\* the loop with newProgress > downloadProgress + 2
CoarseParserStep(output, dp) ==
  LET m == MatchOf[output]
      newProgress == Min(m.val, LegacyCeiling)
  IN  IF m.matched /\ newProgress > dp + CoarseDelta
        THEN [progress |-> newProgress, persist |-> TRUE]
        ELSE [progress |-> dp, persist |-> FALSE]

\* output.includes('[ExtractAudio]') || output.includes('Extracting audio')
\* || output.includes('[ffmpeg]')
IsPostProcessing(output) ==
  \E i \in 1..Len(output) : output[i] \in {"[ExtractAudio]", "[ffmpeg]"}

ReaderModes == {"race", "interval", "coarse"}

\* the state in which the reader starts, right after the spawn
InitReaders ==
  \E mode \in ReaderModes :
    LET start == IF mode = "race" THEN InitialDownloadProgress
                 ELSE LegacyInitialProgress
        first(v, other) == [a \in AttemptIds |-> IF a = 1 THEN v ELSE other]
    IN  /\ pc = mode
        /\ resolution = "1080p" /\ format = "both"
        /\ jobs = [j \in JobIds |->
                     IF j = RequestJobId
                       THEN [progress |-> start, status |-> "downloading",
                             download_speed |-> "Starting download...",
                             eta |-> "Connecting to video source"]
                            @@ NewJob(RequestUrl, "1080p", "both")
                       ELSE NewJob(RequestUrl, "1080p", "both")]
        /\ response = "success"
        /\ ytDlpArgs = buildEnhancedDownloadCommand(RequestUrl, "1080p", "both")
        /\ attempts = 1
        /\ error = Null
        /\ downloadedFile = NoFile
        /\ proc = first("running", "none")
        /\ argv = first(ytDlpArgs, Null)
        /\ streamsOpen = first(TRUE, FALSE)
        /\ nRead = 0
        /\ errorOutput = [a \in AttemptIds |-> ""]
        /\ reader = first("reading", "none")
        /\ errReader = first("reading", "none")
        /\ downloadProgress = first(start, 0)
        /\ hint = [a \in AttemptIds |-> NoFile]
        /\ timer = first(IF mode = "race" THEN "armed" ELSE "unset", "unset")
        /\ tmp = {}
        /\ uploaded = FALSE
        /\ outcome = "none"
        /\ failCause = "none"
        /\ stages = <<>>
        /\ lastWrite = [src |-> "stage", status |-> Null, progress |-> start,
                        prevSrc |-> IF mode = "race" THEN "stage" ELSE "handler",
                        prevProgress |-> IF mode = "race" THEN Pct(8) ELSE 0]
        /\ terminalWrites = 0
        /\ cleanup = "none"
        /\ pipe = EmptyPipe
        /\ progressData = Null
        /\ availableFormats = <<>>
        /\ selectedFormat = Null
        /\ now = 0
        /\ lastUpdateTime = 0
        /\ downloadJobs = <<>> /\ channel = <<>>
        /\ snapshot = NoSnapshot /\ received = NoneReceived

\* a second passes
ClockTick ==
  /\ pc \in ReaderModes
  /\ now < MaxTime
  /\ now' = now + 1
  /\ NoWrite
  /\ UNCHANGED <<pc, response, procVars, readerVars, localVars, histVars, timer,
                 tmp, uploaded, cleanup, syncVars, selectVars, lastUpdateTime, hookVars>>

\* one iteration of the stdout reader loop of monitorDownloadWithTimeout for
\* the only attempt of a reader run: the progress update and file detection
ReaderReadRace ==
  /\ pc = "race"
  /\ reader[1] = "reading"
  /\ nRead < MaxParse
  /\ \E output \in ReaderChunks :
       LET step == TimeoutParserStep(output, downloadProgress[1])
           dest == DestinationFile(output)
       IN  /\ nRead' = nRead + 1
           /\ downloadProgress' = [downloadProgress EXCEPT ![1] = step.progress]
           /\ hint' = [hint EXCEPT ![1] = IF dest # NoFile THEN dest ELSE @]
           /\ IF step.persist
                THEN Write("parser", [progress |-> step.progress,
                                      download_speed |-> SpeedText(output),
                                      eta |-> EtaText(output)])
                ELSE NoWrite
  /\ UNCHANGED <<pc, response, procVars, reader, errReader, errorOutput,
                 localVars, histVars, timer, tmp, uploaded, cleanup, syncVars,
                 selectVars, clockVars, hookVars>>

\* one iteration of the reader loop that keeps lastUpdateTime: the progress
\* update, then the update for a post-processing message
ReaderReadInterval ==
  /\ pc = "interval"
  /\ reader[1] = "reading"
  /\ nRead < MaxParse
  /\ \E output \in ReaderChunks :
       LET step == IntervalParserStep(output, downloadProgress[1], now,
                                      lastUpdateTime)
       IN  /\ nRead' = nRead + 1
           /\ downloadProgress' = [downloadProgress EXCEPT ![1] = step.progress]
           /\ lastUpdateTime' = IF step.persist THEN now ELSE lastUpdateTime
           /\ IF IsPostProcessing(output)
                THEN Write("postprocess",
                           [progress |-> Max(step.progress, PostProcessingProgress),
                            download_speed |-> "Processing...",
                            eta |-> "Almost done"])
              ELSE IF step.persist
                THEN Write("parser", [progress |-> step.progress,
                                      download_speed |-> SpeedText(output),
                                      eta |-> EtaText(output)])
              ELSE NoWrite
  /\ UNCHANGED <<pc, response, procVars, reader, errReader, hint, errorOutput,
                 localVars, histVars, timer, tmp, uploaded, cleanup, syncVars,
                 selectVars, now, hookVars>>

\* one iteration of the reader loop that asks for more than 2 points
ReaderReadCoarse ==
  /\ pc = "coarse"
  /\ reader[1] = "reading"
  /\ nRead < MaxParse
  /\ \E output \in ReaderChunks :
       LET step == CoarseParserStep(output, downloadProgress[1])
       IN  /\ nRead' = nRead + 1
           /\ downloadProgress' = [downloadProgress EXCEPT ![1] = step.progress]
           /\ IF step.persist
                THEN Write("parser", [progress |-> step.progress,
                                      download_speed |-> SpeedText(output),
                                      eta |-> EtaText(output)])
                ELSE NoWrite
  /\ UNCHANGED <<pc, response, procVars, reader, errReader, hint, errorOutput,
                 localVars, histVars, timer, tmp, uploaded, cleanup, syncVars,
                 selectVars, clockVars, hookVars>>

NextReaders ==
  ReaderReadRace \/ ReaderReadInterval \/ ReaderReadCoarse \/ ClockTick

SpecReaders == InitReaders /\ [][NextReaders]_vars

\* ------------------------------------------------------------------------
\* The retry runs: the stdout reader loop of the attempt that follows a
\* retry of executeDownloadWithValidation, fed up to MaxParse chunks.  The
\* run starts right after the catch has written the retry progress and the
\* loop has spawned the next attempt; the attempt before it has exited with
\* an error.
\* ------------------------------------------------------------------------
InitRetry ==
  \E failed \in 1..(maxAttempts - 1) :
    LET res == IF failed = 1 THEN FallbackResolution("1080p")
               ELSE FallbackResolution(FallbackResolution("1080p"))
        args == buildEnhancedDownloadCommand(RequestUrl, "1080p", "both")
        per(now_, before, other) ==
          [a \in AttemptIds |-> IF a = failed + 1 THEN now_
                                ELSE IF a = failed THEN before ELSE other]
    IN  /\ pc = "race"
        /\ resolution = res /\ format = "both"
        /\ jobs = [j \in JobIds |->
                     IF j = RequestJobId
                       THEN [progress |-> RetryProgress(failed),
                             status |-> "downloading",
                             download_speed |-> "Retry...",
                             eta |-> "Attempting with different quality"]
                            @@ NewJob(RequestUrl, "1080p", "both")
                       ELSE NewJob(RequestUrl, "1080p", "both")]
        /\ response = "success"
        /\ ytDlpArgs = args
        /\ attempts = failed + 1
        /\ error = Null
        /\ downloadedFile = NoFile
        /\ proc = per("running", "ended", "none")
        /\ argv = per(args, args, Null)
        /\ streamsOpen = per(TRUE, FALSE, FALSE)
        /\ nRead = 0
        /\ errorOutput = [a \in AttemptIds |-> ""]
        /\ reader = per("reading", "done", "none")
        /\ errReader = per("reading", "done", "none")
        /\ downloadProgress = per(InitialDownloadProgress, 0, 0)
        /\ hint = [a \in AttemptIds |-> NoFile]
        /\ timer = per("armed", "armed", "unset")
        /\ tmp = {}
        /\ uploaded = FALSE
        /\ outcome = "exit_fail"
        /\ failCause = "none"
        /\ stages = <<>>
        /\ lastWrite = [src |-> "retry", status |-> Null,
                        progress |-> RetryProgress(failed),
                        prevSrc |-> IF failed = 1 THEN "stage" ELSE "retry",
                        prevProgress |-> IF failed = 1 THEN Pct(15)
                                         ELSE RetryProgress(failed - 1)]
        /\ terminalWrites = 0
        /\ cleanup = "none"
        /\ pipe = EmptyPipe
        /\ progressData = Null
        /\ availableFormats = <<>>
        /\ selectedFormat = Null
        /\ now = 0
        /\ lastUpdateTime = 0
        /\ downloadJobs = <<>> /\ channel = <<>>
        /\ snapshot = NoSnapshot /\ received = NoneReceived

\* one iteration of the stdout reader loop of monitorDownloadWithTimeout for
\* the attempt that follows the retry
RetryReaderRead ==
  /\ pc = "race"
  /\ reader[attempts] = "reading"
  /\ nRead < MaxParse
  /\ \E output \in ParserChunks :
       LET step == TimeoutParserStep(output, downloadProgress[attempts])
           dest == DestinationFile(output)
       IN  /\ nRead' = nRead + 1
           /\ downloadProgress' =
                [downloadProgress EXCEPT ![attempts] = step.progress]
           /\ hint' = [hint EXCEPT ![attempts] = IF dest # NoFile THEN dest ELSE @]
           /\ IF step.persist
                THEN Write("parser", [progress |-> step.progress,
                                      download_speed |-> SpeedText(output),
                                      eta |-> EtaText(output)])
                ELSE NoWrite
  /\ UNCHANGED <<pc, response, procVars, reader, errReader, errorOutput,
                 localVars, histVars, timer, tmp, uploaded, cleanup, syncVars,
                 selectVars, clockVars, hookVars>>

NextRetry == RetryReaderRead

SpecRetry == InitRetry /\ [][NextRetry]_vars

\* ------------------------------------------------------------------------
\* The hook runs: the effect of useDownloads has subscribed to the realtime
\* channel and called loadDownloadJobs, while the table gets an insert and
\* up to MaxUpdates updates per job.  The realtime channel delivers its
\* events in the order they were sent; the response of the select travels
\* on its own.
\* ------------------------------------------------------------------------
\* updates of one record during a hook run
MaxUpdates == 2

\* the row of job j as the client gets it
Row(table, j) == [id |-> j] @@ table[j]

\* .select('*').order('created_at', { ascending: false }): job B is the
\* newer one
SelectRows(table) ==
  (IF "B" \in DOMAIN table THEN <<Row(table, "B")>> ELSE <<>>)
    \o (IF "A" \in DOMAIN table THEN <<Row(table, "A")>> ELSE <<>>)

\* the handler of an INSERT event
OnInsert(prev, newJob) ==
  IF \E i \in DOMAIN prev : prev[i].id = newJob.id
    THEN prev
    ELSE <<newJob>> \o prev

\* the handler of an UPDATE event: prev.map(job => job.id === updatedJob.id
\* ? updatedJob : job)
OnUpdate(prev, updatedJob) ==
  [i \in DOMAIN prev |-> IF prev[i].id = updatedJob.id THEN updatedJob
                         ELSE prev[i]]

\* right after the effect ran: the channel is subscribed and the select of
\* loadDownloadJobs is on its way; job A is in the table
InitHook ==
  /\ pc = "hook"
  /\ resolution = "1080p" /\ format = "both"
  /\ jobs = [j \in {"A"} |-> NewJob(RequestUrl, "1080p", "both")]
  /\ response = "none"
  /\ ytDlpArgs = Null
  /\ attempts = 0
  /\ error = Null
  /\ downloadedFile = NoFile
  /\ proc = [a \in AttemptIds |-> "none"]
  /\ argv = [a \in AttemptIds |-> Null]
  /\ streamsOpen = [a \in AttemptIds |-> FALSE]
  /\ nRead = 0
  /\ errorOutput = [a \in AttemptIds |-> ""]
  /\ reader = [a \in AttemptIds |-> "none"]
  /\ errReader = [a \in AttemptIds |-> "none"]
  /\ downloadProgress = [a \in AttemptIds |-> 0]
  /\ hint = [a \in AttemptIds |-> NoFile]
  /\ timer = [a \in AttemptIds |-> "unset"]
  /\ tmp = {}
  /\ uploaded = FALSE
  /\ outcome = "none"
  /\ failCause = "none"
  /\ stages = <<>>
  /\ lastWrite = [src |-> "insert", status |-> "pending", progress |-> 0,
                  prevSrc |-> "insert", prevProgress |-> 0]
  /\ terminalWrites = 0
  /\ cleanup = "none"
  /\ pipe = EmptyPipe
  /\ progressData = Null
  /\ availableFormats = <<>>
  /\ selectedFormat = Null
  /\ now = 0
  /\ lastUpdateTime = 0
  /\ downloadJobs = <<>> /\ channel = <<>>
  /\ snapshot = [state |-> "requested", rows |-> <<>>]
  /\ received = NoneReceived

HookFrame ==
  UNCHANGED <<pc, response, procVars, readerVars, localVars, histVars, timer,
              tmp, uploaded, cleanup, syncVars, selectVars, clockVars,
              lastWrite, terminalWrites>>

\* the insert of startDownload reaches the table
ServerInsert(j) ==
  /\ pc = "hook"
  /\ j \notin DOMAIN jobs
  /\ jobs' = [k \in DOMAIN jobs \cup {j} |->
                IF k = j THEN NewJob(RequestUrl, "1080p", "both") ELSE jobs[k]]
  /\ channel' = Append(channel, [eventType |-> "INSERT", new |-> Row(jobs', j)])
  /\ UNCHANGED <<downloadJobs, snapshot, received>>
  /\ HookFrame

\* an update of the edge function reaches the table
ServerUpdate(j) ==
  /\ pc = "hook"
  /\ j \in DOMAIN jobs
  /\ jobs[j].progress < MaxUpdates * Pct(5)
  /\ jobs' = [jobs EXCEPT ![j] = [status |-> "downloading",
                                  progress |-> jobs[j].progress + Pct(5)] @@ @]
  /\ channel' = Append(channel, [eventType |-> "UPDATE", new |-> Row(jobs', j)])
  /\ UNCHANGED <<downloadJobs, snapshot, received>>
  /\ HookFrame

\* the select of loadDownloadJobs is executed
ServerSelect ==
  /\ pc = "hook"
  /\ snapshot.state = "requested"
  /\ snapshot' = [state |-> "sent", rows |-> SelectRows(jobs)]
  /\ UNCHANGED <<jobs, downloadJobs, channel, received>>
  /\ HookFrame

\* the callback of the subscription handles the next event
ClientEvent ==
  /\ pc = "hook"
  /\ channel # <<>>
  /\ LET payload == Head(channel)
     IN  /\ downloadJobs' = IF payload.eventType = "INSERT"
                              THEN OnInsert(downloadJobs, payload.new)
                              ELSE OnUpdate(downloadJobs, payload.new)
         /\ received' = IF payload.eventType = "UPDATE"
                          THEN [received EXCEPT ![payload.new.id] =
                                  payload.new.progress]
                          ELSE received
  /\ channel' = Tail(channel)
  /\ UNCHANGED <<jobs, snapshot>>
  /\ HookFrame

\* loadDownloadJobs gets its rows: setDownloadJobs(typedData)
ClientSnapshot ==
  /\ pc = "hook"
  /\ snapshot.state = "sent"
  /\ downloadJobs' = snapshot.rows
  /\ snapshot' = [state |-> "applied", rows |-> <<>>]
  /\ UNCHANGED <<jobs, channel, received>>
  /\ HookFrame

NextHook ==
  \/ \E j \in JobIds : ServerInsert(j) \/ ServerUpdate(j)
  \/ ServerSelect \/ ClientEvent \/ ClientSnapshot

SpecHook == InitHook /\ [][NextHook]_vars

\* ------------------------------------------------------------------------
\* The verification runs: verifyFileIntegrity on one file of /tmp, for
\* every format, size, header and extension of VerifyFiles
\* ------------------------------------------------------------------------
VerifySizes == {500, 99999, 100000, 999999, 1000000, 5000000}

VerifyHeaders ==
  {HdrMp4, HdrMp4Variant, HdrFtyp32, HdrText, HdrEbml, HdrId3, HdrMp3}

ProbeName == "/tmp/Probe_Up_id9"

\* the probe files: a zero-byte file, and every other size with every header
VerifyFiles ==
  LET probe(e, n, h) ==
        [name |-> ProbeName, ext |-> e, nameLen |-> 12, hidden |-> FALSE,
         size |-> n, mtime |-> 1, header |-> h, job |-> "A"]
  IN  {probe(e, 0, <<>>) : e \in {"mp4", "txt"}}
        \cup {probe(x[1], x[2], x[3]) :
                x \in {"mp4", "txt"} \X VerifySizes \X VerifyHeaders}

\* the state in which verifyFileIntegrity is called: the only attempt exited
\* 0 and the probe file was returned as the downloaded file
InitVerify ==
  \E f \in VerifyFiles, fmt \in Formats :
    LET first(v, other) == [a \in AttemptIds |-> IF a = 1 THEN v ELSE other]
    IN  /\ pc = "verify"
        /\ resolution = "1080p" /\ format = fmt
        /\ jobs = [j \in JobIds |->
                     IF j = RequestJobId
                       THEN [progress |-> InitialDownloadProgress,
                             status |-> "downloading",
                             download_speed |-> "Starting download...",
                             eta |-> "Connecting to video source"]
                            @@ NewJob(RequestUrl, "1080p", fmt)
                       ELSE NewJob(RequestUrl, "1080p", fmt)]
        /\ response = "success"
        /\ ytDlpArgs = buildEnhancedDownloadCommand(RequestUrl, "1080p", fmt)
        /\ attempts = 1
        /\ error = Null
        /\ downloadedFile = f.name
        /\ proc = first("ended", "none")
        /\ argv = first(ytDlpArgs, Null)
        /\ streamsOpen = [a \in AttemptIds |-> FALSE]
        /\ nRead = 0
        /\ errorOutput = [a \in AttemptIds |-> ""]
        /\ reader = first("done", "none")
        /\ errReader = first("done", "none")
        /\ downloadProgress = [a \in AttemptIds |-> 0]
        /\ hint = [a \in AttemptIds |-> NoFile]
        /\ timer = first("armed", "unset")
        /\ tmp = {f}
        /\ uploaded = FALSE
        /\ outcome = "ok"
        /\ failCause = "none"
        /\ stages = <<>>
        /\ lastWrite = [src |-> "stage", status |-> Null,
                        progress |-> InitialDownloadProgress,
                        prevSrc |-> "stage", prevProgress |-> Pct(8)]
        /\ terminalWrites = 0
        /\ cleanup = "none"
        /\ pipe = EmptyPipe
        /\ progressData = Null
        /\ availableFormats = <<>>
        /\ selectedFormat = Null
        /\ now = 0
        /\ lastUpdateTime = 0
        /\ downloadJobs = <<>> /\ channel = <<>>
        /\ snapshot = NoSnapshot /\ received = NoneReceived

NextVerify == Verify

SpecVerify == InitVerify /\ [][NextVerify]_vars

\* ------------------------------------------------------------------------
\* The locator runs: the subprocess of the only attempt exited 0 without a
\* parsed destination, and findValidDownloadedFile scans a /tmp that holds
\* any of FindFiles, written by this job or left behind by another one
\* ------------------------------------------------------------------------
FindFiles ==
  Files \cup
  { [name |-> "/tmp/Clip_Up_id3.mp4", ext |-> "mp4", nameLen |-> 15,
     hidden |-> FALSE, size |-> 4500000, mtime |-> 5, header |-> HdrMp4,
     job |-> "A"],
    [name |-> "/tmp/Other_Up_id7.mp4", ext |-> "mp4", nameLen |-> 16,
     hidden |-> FALSE, size |-> 5000000, mtime |-> 6, header |-> HdrMp4,
     job |-> "B"],
    [name |-> "/tmp/Old_Up_id4.webm", ext |-> "webm", nameLen |-> 15,
     hidden |-> FALSE, size |-> 2000000, mtime |-> 1, header |-> HdrEbml,
     job |-> "B"],
    [name |-> "/tmp/.part_Up_id8.mp4", ext |-> "mp4", nameLen |-> 16,
     hidden |-> TRUE, size |-> 9000000, mtime |-> 7, header |-> HdrMp4,
     job |-> "A"] }

InitFind ==
  \E dir \in SUBSET FindFiles :
    LET first(v, other) == [a \in AttemptIds |-> IF a = 1 THEN v ELSE other]
    IN  /\ pc = "await_status"
        /\ resolution = "1080p" /\ format = "both"
        /\ jobs = [j \in JobIds |->
                     IF j = RequestJobId
                       THEN [progress |-> InitialDownloadProgress,
                             status |-> "downloading",
                             download_speed |-> "Starting download...",
                             eta |-> "Connecting to video source"]
                            @@ NewJob(RequestUrl, "1080p", "both")
                       ELSE NewJob(RequestUrl, "1080p", "both")]
        /\ response = "success"
        /\ ytDlpArgs = buildEnhancedDownloadCommand(RequestUrl, "1080p", "both")
        /\ attempts = 1
        /\ error = Null
        /\ downloadedFile = NoFile
        /\ proc = first("exited_ok", "none")
        /\ argv = first(ytDlpArgs, Null)
        /\ streamsOpen = [a \in AttemptIds |-> FALSE]
        /\ nRead = 0
        /\ errorOutput = [a \in AttemptIds |-> ""]
        /\ reader = first("done", "none")
        /\ errReader = first("done", "none")
        /\ downloadProgress = [a \in AttemptIds |-> 0]
        /\ hint = [a \in AttemptIds |-> NoFile]
        /\ timer = first("armed", "unset")
        /\ tmp = dir
        /\ uploaded = FALSE
        /\ outcome = "none"
        /\ failCause = "none"
        /\ stages = <<>>
        /\ lastWrite = [src |-> "stage", status |-> Null,
                        progress |-> InitialDownloadProgress,
                        prevSrc |-> "stage", prevProgress |-> Pct(8)]
        /\ terminalWrites = 0
        /\ cleanup = "none"
        /\ pipe = EmptyPipe
        /\ progressData = Null
        /\ availableFormats = <<>>
        /\ selectedFormat = Null
        /\ now = 0
        /\ lastUpdateTime = 0
        /\ downloadJobs = <<>> /\ channel = <<>>
        /\ snapshot = NoSnapshot /\ received = NoneReceived

NextFind == AwaitStatus

SpecFind == InitFind /\ [][NextFind]_vars

\* ------------------------------------------------------------------------
\* The synchronous handler: it spawns the tool with both streams piped,
\* reads stdout to its end, then awaits the exit status
\* ------------------------------------------------------------------------
\* number of chunks a pipe buffers before a write to it blocks
PipeCapacity == 2

Streams == {"stdout", "stderr"}

\* state of a subprocess whose write to a stream waits for room in the pipe
BlockedOn(stream) ==
  IF stream = "stdout" THEN "blocked_stdout" ELSE "blocked_stderr"

\* quality === '4K' ? ... : 'best[height<=720]'
qualityFormat(quality) ==
  CASE quality = "4K" -> "best[height<=2160]"
    [] quality = "1440p" -> "best[height<=1440]"
    [] quality = "1080p" -> "best[height<=1080]"
    [] OTHER -> "best[height<=720]"

\* the arguments of the Deno.Command
SyncArgs(url, quality) ==
  <<"--newline", "--progress", "--format", qualityFormat(quality),
    "--output", "<tempDir>/%(title)s.%(ext)s", url>>

\* the chunks the subprocess writes to stdout
SyncChunks ==
  PipelineChunks \cup
    { <<"[info]", " ", "Downloading", " ", "1", " ", "format(s)">>,
      ProgressLine(<<"6", "0">>) \o <<"NL">> \o ProgressLine(<<"5", "0">>) }

RECURSIVE SplitLines(_)
\* output.split('\n')
SplitLines(s) ==
  IF \E i \in 1..Len(s) : s[i] = "NL"
    THEN LET i == CHOOSE j \in 1..Len(s) :
                    s[j] = "NL" /\ \A k \in 1..(j - 1) : s[k] # "NL"
         IN  <<SubSeq(s, 1, i - 1)>> \o SplitLines(SubSeq(s, i + 1, Len(s)))
    ELSE <<s>>

\* /(\d+(?:\.\d+)?)%/ tried at index i
SyncNumPctAt(s, i) ==
  IF ~IsDigit(s[i]) THEN [ok |-> FALSE, val |-> 0]
  ELSE
    LET e1 == DigitsEnd(s, i)
        frac == e1 + 1 <= Len(s) /\ s[e1] = "." /\ IsDigit(s[e1 + 1])
        e2 == IF frac THEN DigitsEnd(s, e1 + 1) ELSE e1
    IN  IF e2 <= Len(s) /\ s[e2] = "%"
          THEN [ok |-> TRUE, val |-> parseFloat(s, i, e1, e2)]
          ELSE [ok |-> FALSE, val |-> 0]

\* line.match(/(\d+(?:\.\d+)?)%/): the leftmost match
SyncProgressMatch(line) ==
  LET P(i) == SyncNumPctAt(line, i).ok
  IN  IF \E i \in 1..Len(line) : P(i)
        THEN [matched |-> TRUE,
              val |-> SyncNumPctAt(line,
                        CHOOSE i \in 1..Len(line) :
                          P(i) /\ \A k \in 1..(i - 1) : ~P(k)).val]
        ELSE NoMatch

\* line.match(/(\d+(?:\.\d+)?(?:KiB|MiB|GiB)\/s)/)
SyncSpeedMatch(line) == \E i \in 1..Len(line) : line[i] = "1.5MiB/s"

\* line.match(/ETA (\d+:\d+)/)
SyncEtaMatch(line) ==
  \E i \in 1..(Len(line) - 2) :
    line[i] = "ETA" /\ line[i + 1] = " " /\ line[i + 2] = "00:10"

\* let progressData = { progress: 0, speed: '', eta: '' }
InitialProgressData == [progress |-> 0, speed |-> "", eta |-> ""]

\* line.includes('[download]') && line.includes('%')
IsProgressLine(line) ==
  /\ \E i \in 1..Len(line) : line[i] = "[download]"
  /\ \E i \in 1..Len(line) : line[i] = "%"

\* the body of the for loop for one progress line
SyncLineStep(pd, line) ==
  LET m == SyncProgressMatch(line)
  IN  [progress |-> IF m.matched THEN m.val ELSE pd.progress,
       speed |-> IF SyncSpeedMatch(line) THEN "1.5MiB/s" ELSE pd.speed,
       eta |-> IF SyncEtaMatch(line) THEN "00:10" ELSE pd.eta]

RECURSIVE SyncLines(_, _, _)
\* the for loop over the lines of one chunk: the progressData after it and
\* whether an update was sent (the last update carries the last progressData)
SyncLines(pd, lines, wrote) ==
  IF lines = <<>> THEN [pd |-> pd, wrote |-> wrote]
  ELSE IF IsProgressLine(Head(lines))
    THEN SyncLines(SyncLineStep(pd, Head(lines)), Tail(lines), TRUE)
    ELSE SyncLines(pd, Tail(lines), wrote)

\* the job record as the client inserted it, before the request
InitSync ==
  /\ \E q \in Resolutions : resolution = q
  /\ format = Null
  /\ jobs = [j \in JobIds |-> NewJob(RequestUrl, resolution, "both")]
  /\ pc = "sync_idle"
  /\ response = "none"
  /\ ytDlpArgs = Null
  /\ attempts = 0
  /\ error = Null
  /\ downloadedFile = NoFile
  /\ proc = [a \in AttemptIds |-> "none"]
  /\ argv = [a \in AttemptIds |-> Null]
  /\ streamsOpen = [a \in AttemptIds |-> FALSE]
  /\ nRead = 0
  /\ errorOutput = [a \in AttemptIds |-> ""]
  /\ reader = [a \in AttemptIds |-> "none"]
  /\ errReader = [a \in AttemptIds |-> "none"]
  /\ downloadProgress = [a \in AttemptIds |-> 0]
  /\ hint = [a \in AttemptIds |-> NoFile]
  /\ timer = [a \in AttemptIds |-> "unset"]
  /\ tmp = {}
  /\ uploaded = FALSE
  /\ outcome = "none"
  /\ failCause = "none"
  /\ stages = <<>>
  /\ lastWrite = [src |-> "insert", status |-> "pending", progress |-> 0,
                  prevSrc |-> "none", prevProgress |-> 0]
  /\ terminalWrites = 0
  /\ cleanup = "none"
  /\ pipe = EmptyPipe
  /\ progressData = Null
  /\ availableFormats = <<>>
  /\ selectedFormat = Null
  /\ now = 0
  /\ lastUpdateTime = 0
  /\ downloadJobs = <<>> /\ channel = <<>>
  /\ snapshot = NoSnapshot /\ received = NoneReceived

\* serve: the record is set to downloading, the tool is spawned with stdout
\* and stderr piped, and a reader is taken for stdout alone; when spawn()
\* throws, the catch answers 500
SyncHandlerStart ==
  /\ pc = "sync_idle"
  /\ Write("handler", [status |-> "downloading", progress |-> 0])
  /\ \E spawnOk \in BOOLEAN :
       IF spawnOk
         THEN /\ proc' = [proc EXCEPT ![1] = "running"]
              /\ argv' = [argv EXCEPT ![1] = SyncArgs(RequestUrl, resolution)]
              /\ streamsOpen' = [streamsOpen EXCEPT ![1] = TRUE]
              /\ reader' = [reader EXCEPT ![1] = "reading"]
              /\ progressData' = InitialProgressData
              /\ pc' = "sync_read"
              /\ UNCHANGED response
         ELSE /\ pc' = "sync_done"
              /\ response' = "error500"
              /\ UNCHANGED <<procVars, reader, progressData>>
  /\ UNCHANGED <<errReader, downloadProgress, hint, nRead, errorOutput,
                 localVars, histVars, timer, tmp, uploaded, cleanup, pipe, selectVars, clockVars, hookVars>>

\* the subprocess writes a chunk to one of its streams
SyncProcWrite(stream) ==
  /\ proc[1] = "running"
  /\ streamsOpen[1]
  /\ pipe[stream] < PipeCapacity
  /\ pipe' = [pipe EXCEPT ![stream] = @ + 1]
  /\ NoWrite
  /\ UNCHANGED <<pc, response, procVars, readerVars, localVars, histVars,
                 timer, tmp, uploaded, cleanup, progressData, selectVars, clockVars, hookVars>>

\* the subprocess writes to a stream whose pipe is full: the write blocks
\* until a reader takes something out of the pipe
SyncProcBlock(stream) ==
  /\ proc[1] = "running"
  /\ streamsOpen[1]
  /\ pipe[stream] = PipeCapacity
  /\ proc' = [proc EXCEPT ![1] = BlockedOn(stream)]
  /\ NoWrite
  /\ UNCHANGED <<pc, response, argv, streamsOpen, readerVars, localVars,
                 histVars, timer, tmp, uploaded, cleanup, syncVars, selectVars, clockVars, hookVars>>

\* the subprocess exits, with status 0 or not; its streams close
SyncProcExit ==
  /\ proc[1] = "running"
  /\ \E code \in {"exited_ok", "exited_fail"} :
       proc' = [proc EXCEPT ![1] = code]
  /\ streamsOpen' = [streamsOpen EXCEPT ![1] = FALSE]
  /\ NoWrite
  /\ UNCHANGED <<pc, response, argv, readerVars, localVars, histVars, timer,
                 tmp, uploaded, cleanup, syncVars, selectVars, clockVars, hookVars>>

\* one iteration of while (true): reader.read() returns a chunk of the
\* stdout pipe, whose progress lines are parsed and persisted, or done once
\* the pipe is empty and closed.  Taking a chunk out of a full pipe lets a
\* write blocked on stdout complete.
SyncStdoutRead ==
  /\ pc = "sync_read"
  /\ reader[1] = "reading"
  /\ \/ /\ pipe.stdout > 0
        /\ \E output \in SyncChunks :
             LET r == SyncLines(progressData, SplitLines(output), FALSE)
             IN  /\ progressData' = r.pd
                 /\ IF r.wrote
                      THEN Write("sync", [progress |-> r.pd.progress,
                                          download_speed |-> r.pd.speed,
                                          eta |-> r.pd.eta])
                      ELSE NoWrite
        /\ IF proc[1] = BlockedOn("stdout")
             THEN /\ proc' = [proc EXCEPT ![1] = "running"]
                  /\ UNCHANGED pipe
             ELSE /\ pipe' = [pipe EXCEPT !.stdout = @ - 1]
                  /\ UNCHANGED proc
        /\ UNCHANGED <<pc, reader>>
     \/ /\ pipe.stdout = 0
        /\ ~streamsOpen[1]
        /\ reader' = [reader EXCEPT ![1] = "done"]
        /\ pc' = "sync_status"
        /\ NoWrite
        /\ UNCHANGED <<proc, syncVars, selectVars, clockVars, hookVars>>
  /\ UNCHANGED <<response, argv, streamsOpen, errReader, downloadProgress,
                 hint, nRead, errorOutput, localVars, histVars, timer, tmp,
                 uploaded, cleanup, selectVars, clockVars, hookVars>>

\* const status = await child.status, and the update and the answer for it
SyncAwaitStatus ==
  /\ pc = "sync_status"
  /\ proc[1] \in {"exited_ok", "exited_fail"}
  /\ IF proc[1] = "exited_ok"
       THEN /\ Write("sync", [status |-> "completed", progress |-> Pct(100),
                              download_speed |-> "", eta |-> ""])
            /\ response' = "success"
       ELSE /\ Write("sync", [status |-> "failed",
                              progress |-> jobs[RequestJobId].progress,
                              error_message |-> "Download failed"])
            /\ response' = "error500"
  /\ pc' = "sync_done"
  /\ UNCHANGED <<procVars, readerVars, localVars, histVars, timer, tmp,
                 uploaded, cleanup, syncVars, selectVars, clockVars, hookVars>>

NextSync ==
  \/ SyncHandlerStart
  \/ \E stream \in Streams : SyncProcWrite(stream) \/ SyncProcBlock(stream)
  \/ SyncProcExit
  \/ SyncStdoutRead
  \/ SyncAwaitStatus

SpecSync == InitSync /\ [][NextSync]_vars

\* ------------------------------------------------------------------------
\* The format selection: buildEnhancedDownloadCommand, and
\* validateAndSelectFormat followed by buildPreciseDownloadCommand, for
\* every resolution of the client, every format and every list of heights
\* getAvailableFormats may return
\* ------------------------------------------------------------------------
\* length of the longest list of available formats
MaxFormats == 2

\* qualityOptions of the client, and the resolution the retry falls back to
ResolutionTokens == {"144p", "360p", "480p", "720p", "1080p", "1440p", "4K"}

\* the heights the tool may list for a source
AvailableHeights == {360, 720, 1080, 2160}

\* the lists getAvailableFormats may return: heights in the order of the
\* tool's listing
AvailableLists ==
  {l \in UNION {[1..n -> AvailableHeights] : n \in 0..MaxFormats} :
     \A i, j \in DOMAIN l : i # j => l[i] # l[j]}

\* requestedResolution === '4K' ? 2160 : parseInt(requestedResolution.replace('p', ''))
resolutionNumber(requestedResolution) ==
  CASE requestedResolution = "4K" -> 2160
    [] requestedResolution = "144p" -> 144
    [] requestedResolution = "360p" -> 360
    [] requestedResolution = "480p" -> 480
    [] requestedResolution = "720p" -> 720
    [] requestedResolution = "1080p" -> 1080
    [] requestedResolution = "1440p" -> 1440
    [] requestedResolution = "2160p" -> 2160

\* `${closestFormat.height}p`
HeightToken(height) ==
  CASE height = 360 -> "360p" [] height = 720 -> "720p"
    [] height = 1080 -> "1080p" [] height = 2160 -> "2160p"

Abs(n) == IF n < 0 THEN 0 - n ELSE n

\* availableFormats.sort((a, b) => |a.height - n| - |b.height - n|)[0]: the
\* sort is stable, so of the closest heights the first of the list
closestFormat(available, n) ==
  available[CHOOSE i \in DOMAIN available :
              /\ \A j \in DOMAIN available :
                   Abs(available[i] - n) <= Abs(available[j] - n)
              /\ \A j \in 1..(i - 1) :
                   Abs(available[j] - n) > Abs(available[i] - n)]

validateAndSelectFormat(available, requestedResolution, requestedFormat) ==
  LET n == resolutionNumber(requestedResolution)
  IN  IF Len(available) = 0
        THEN [resolution |-> requestedResolution, format |-> requestedFormat,
              validated |-> FALSE, fallback |-> FALSE]
      ELSE IF \E i \in DOMAIN available : available[i] = n
        THEN [resolution |-> requestedResolution, format |-> requestedFormat,
              validated |-> TRUE, fallback |-> FALSE]
      ELSE [resolution |-> HeightToken(closestFormat(available, n)),
            format |-> requestedFormat,
            validated |-> TRUE, fallback |-> TRUE]

buildPreciseDownloadCommand(url, selected, fmt) ==
  IF fmt = "audio"
    THEN [extractAudio |-> TRUE, url |-> url,
          selector |-> <<Alt("bestaudio", "", ""), Alt("best", "", "")>>]
  ELSE IF fmt = "video"
    THEN [extractAudio |-> FALSE, url |-> url,
          selector |-> <<Alt("bestvideo", maxHeight(selected.resolution), "mp4"),
                         Alt("bestvideo", maxHeight(selected.resolution), ""),
                         Alt("best", maxHeight(selected.resolution), "")>>]
  ELSE [extractAudio |-> FALSE, url |-> url,
        selector |-> <<Alt("best", maxHeight(selected.resolution), "mp4"),
                       Alt("best", maxHeight(selected.resolution), ""),
                       Alt("best", "", "")>>]

\* a request of the client with the formats its source offers
InitSelect ==
  /\ \E r \in ResolutionTokens, f \in Formats, l \in AvailableLists :
       resolution = r /\ format = f /\ availableFormats = l
  /\ jobs = [j \in JobIds |-> NewJob(RequestUrl, resolution, format)]
  /\ pc = "select"
  /\ response = "none"
  /\ ytDlpArgs = Null
  /\ attempts = 0
  /\ error = Null
  /\ downloadedFile = NoFile
  /\ proc = [a \in AttemptIds |-> "none"]
  /\ argv = [a \in AttemptIds |-> Null]
  /\ streamsOpen = [a \in AttemptIds |-> FALSE]
  /\ nRead = 0
  /\ errorOutput = [a \in AttemptIds |-> ""]
  /\ reader = [a \in AttemptIds |-> "none"]
  /\ errReader = [a \in AttemptIds |-> "none"]
  /\ downloadProgress = [a \in AttemptIds |-> 0]
  /\ hint = [a \in AttemptIds |-> NoFile]
  /\ timer = [a \in AttemptIds |-> "unset"]
  /\ tmp = {}
  /\ uploaded = FALSE
  /\ outcome = "none"
  /\ failCause = "none"
  /\ stages = <<>>
  /\ lastWrite = [src |-> "insert", status |-> "pending", progress |-> 0,
                  prevSrc |-> "none", prevProgress |-> 0]
  /\ terminalWrites = 0
  /\ cleanup = "none"
  /\ pipe = EmptyPipe
  /\ progressData = Null
  /\ selectedFormat = Null
  /\ now = 0
  /\ lastUpdateTime = 0
  /\ downloadJobs = <<>> /\ channel = <<>>
  /\ snapshot = NoSnapshot /\ received = NoneReceived

\* executeDownloadWithValidation: const ytDlpArgs = buildEnhancedDownloadCommand(...)
SelectEnhanced ==
  /\ pc = "select"
  /\ ytDlpArgs' = buildEnhancedDownloadCommand(RequestUrl, resolution, format)
  /\ pc' = "built_enhanced"
  /\ NoWrite
  /\ UNCHANGED <<response, procVars, readerVars, resolution, format, attempts,
                 error, downloadedFile, histVars, timer, tmp, uploaded,
                 cleanup, syncVars, selectVars, clockVars, hookVars>>

\* downloadVideoWithValidation: const selectedFormat = await validateAndSelectFormat(...)
SelectValidate ==
  /\ pc = "select"
  /\ selectedFormat' = validateAndSelectFormat(availableFormats, resolution, format)
  /\ pc' = "selected"
  /\ NoWrite
  /\ UNCHANGED <<response, procVars, readerVars, localVars, histVars, timer,
                 tmp, uploaded, cleanup, syncVars, availableFormats,
                 clockVars, hookVars>>

\* downloadVideoWithValidation: const ytDlpArgs = await buildPreciseDownloadCommand(...)
SelectPrecise ==
  /\ pc = "selected"
  /\ ytDlpArgs' = buildPreciseDownloadCommand(RequestUrl, selectedFormat, format)
  /\ pc' = "built_precise"
  /\ NoWrite
  /\ UNCHANGED <<response, procVars, readerVars, resolution, format, attempts,
                 error, downloadedFile, histVars, timer, tmp, uploaded,
                 cleanup, syncVars, selectVars, clockVars, hookVars>>

NextSelect == SelectEnhanced \/ SelectValidate \/ SelectPrecise

SpecSelect == InitSelect /\ [][NextSelect]_vars

\* ------------------------------------------------------------------------
\* Properties
\* ------------------------------------------------------------------------
Job == jobs[RequestJobId]
Status == Job.status

\* the attempt outcomes after which the attempt counts as unsuccessful
Failures == {"exit_fail", "timeout", "spawn_fail"}

\* C1: once the handler has started the background pipeline, the job record
\* eventually has status completed or failed, whatever fails on the way
C1_EventuallyTerminal == (pc = "validate_env") ~> (Status \in Terminal)

\* C2: at most one update of a job lifecycle sets a terminal status: no
\* failed write after the completed write (also when removing the temporary
\* file fails) and no completed write after the failed write
C2_OneTerminalWrite == terminalWrites <= 1

\* the job completed and the removal of the temporary file failed
C2_Witness ==
  /\ Status = "completed" /\ cleanup = "failed" /\ pc = "done"
  /\ terminalWrites = 1

\* C3: whenever the record has status completed, verification, upload and
\* signed-URL issuance have succeeded in that order, progress is 100 and
\* download_url is set
C3_CompletedRecord ==
  Status = "completed" =>
    /\ stages = <<"verified", "uploaded", "signed">>
    /\ Job.progress = Pct(100)
    /\ Job.download_url # Null

\* C4: in a terminal status exactly one of error_message and download_url is
\* set; in pending and downloading both are null
C4_ExactlyOne ==
  \A j \in JobIds :
    /\ jobs[j].status \in Terminal =>
         (jobs[j].error_message # Null) # (jobs[j].download_url # Null)
    /\ jobs[j].status \in {"pending", "downloading"} =>
         jobs[j].error_message = Null /\ jobs[j].download_url = Null

\* the job failed after its retries and carries a message and no URL
C4_Witness ==
  /\ Status = "failed" /\ attempts = maxAttempts
  /\ Job.error_message = MsgAttempts /\ Job.download_url = Null

\* C5: every progress value written lies in [0,100], and 100 is written only
\* by the update that sets status completed, never while downloading
C5_ProgressRange ==
  /\ lastWrite.progress \in 0..Pct(100)
  /\ lastWrite.progress = Pct(100) => lastWrite.status = "completed"
  /\ Status \in {"pending", "downloading"} => Job.progress \in 0..(Pct(100) - 1)

\* the tool printed 100% and the parser wrote the ceiling while downloading
C5_Witness ==
  /\ lastWrite.src = "parser" /\ lastWrite.progress = ParserCeiling
  /\ Status = "downloading" /\ Job.progress = ParserCeiling

\* C6: of two consecutive values the stdout reader of one attempt persists,
\* the second is not below the first
C6_NonDecreasing ==
  (lastWrite.src = "parser" /\ lastWrite.prevSrc = "parser") =>
    lastWrite.progress >= lastWrite.prevProgress

\* the reader read MaxParse chunks and persisted two values in a row, the
\* second above the first
C6_Witness ==
  /\ lastWrite.src = "parser" /\ lastWrite.prevSrc = "parser"
  /\ lastWrite.progress > lastWrite.prevProgress
  /\ nRead = MaxParse

\* C7: when no subprocess of the job ever exits, each is killed on its
\* timeout and the job fails with the timeout message
C7_TimeoutClassified ==
  (/\ \A a \in 1..maxAttempts : proc[a] \in {"signalled", "killed"}
   /\ Status = "failed")
    => Job.error_message = MsgTimeout

\* the failure causes and the messages their throw sites produce
Causes == {"unavailable", "process", "notfound", "validation", "upload", "url"}

MessagesOf(cause) ==
  CASE cause = "unavailable" -> {MsgYtDlp, MsgFFmpeg}
    [] cause = "process" -> {MsgAttempts}
    [] cause = "notfound" -> {MsgAttempts, MsgNoValidFile, MsgReadFile}
    [] cause = "validation" -> {MsgVerifyNotFound, MsgVerifyTooSmall,
                                MsgVerifyHeader, MsgUploadSmall}
    [] cause = "upload" -> {MsgUpload}
    [] cause = "url" -> {MsgUrl}
    [] cause = "request" -> {MsgSplit}

\* the message table agrees with the pipeline
MessageOfCause == Status = "failed" => Job.error_message \in MessagesOf(failCause)

\* C8: the error_message of a failed job is a message of no other cause than
\* the one that failed it
C8_DistinctMessages ==
  Status = "failed" =>
    \A c \in Causes \ {failCause} : Job.error_message \notin MessagesOf(c)

\* C9: an attempt that follows a failed one runs with the argument vector
\* built for the resolution the catch stepped down to
C9_FallbackArgs ==
  (pc = "race" /\ attempts > 1 /\ outcome \in Failures) =>
    argv[attempts] = buildEnhancedDownloadCommand(RequestUrl, resolution, format)

\* C10: at most three subprocesses are spawned for a job, and after the
\* third unsuccessful attempt the final failure is thrown
C10_AtMostThreeSpawns ==
  /\ Cardinality({a \in AttemptIds : proc[a] # "none"}) <= maxAttempts
  /\ attempts <= maxAttempts
  /\ (attempts = maxAttempts /\ pc \in {"catch", "done"}
        /\ outcome \in Failures \cup {"no_file"}) => error = MsgAttempts

\* three subprocesses were spawned, the third found no file, the job failed
C10_Witness ==
  /\ \A a \in 1..maxAttempts : proc[a] # "none"
  /\ outcome = "no_file" /\ Status = "failed"
  /\ Job.error_message = MsgAttempts


\* C11: once a subprocess exited successfully and no file was found, no
\* further subprocess is spawned and the job is failed
C11_NoRespawnAfterNoFile ==
  outcome = "no_file" =>
    /\ pc \in {"catch", "done"}
    /\ pc = "done" => Status = "failed"

\* C12: when the job has been written failed because verifyFileIntegrity
\* rejected the file (size floor or signature), the file is no longer in /tmp
C12_RejectedFileDeleted ==
  (Status = "failed"
     /\ Job.error_message \in {MsgVerifyTooSmall, MsgVerifyHeader}) =>
    downloadedFile \notin {f.name : f \in tmp}

\* the files of /tmp below the size floor of a video request
BelowFloor == {f \in Files : f.size < MinSizeVideo /\ f.size < MinSizeAudio}

\* C13: when the last run of the tool exited 0 and the only file produced
\* is below the size floor, the failed job carries the too-small message
C13_TooSmallMessage ==
  (Status = "failed" /\ outcome \in {"no_file", "ok"}
     /\ tmp # {} /\ tmp \subseteq BelowFloor) =>
    Job.error_message = MsgVerifyTooSmall

\* the file verifyFileIntegrity was called on
Probe == CHOOSE f \in tmp : f.name = downloadedFile

\* verifyFileIntegrity has returned or thrown
Verified == pc \in {"upload_start", "catch"}

C15_AnyFtypBox ==
  (Verified /\ format \in {"video", "both"}
     /\ Probe.size >= MinSizeVideo
     /\ Len(Probe.header) >= 8 /\ SubSeq(Probe.header, 5, 8) = Ftyp) =>
    pc = "upload_start"

\* the file findValidDownloadedFile returned
Selected == CHOOSE f \in tmp : f.name = downloadedFile

\* C16: the file returned is a candidate of maximal size, and the most
\* recently modified one among the candidates of that size
C16_LargestThenNewest ==
  pc = "verify" =>
    \A g \in Candidates(tmp) :
      /\ Selected.size >= g.size
      /\ g.size = Selected.size => Selected.mtime >= g.mtime

\* C17: the file returned was written by the subprocess of this job
C17_OwnFileOnly ==
  pc = "verify" => Selected.job = RequestJobId

C19_IncompleteRejected ==
  resolution = Null => response # "success" /\ pc \in {"idle", "rejected"}

\* C20: whenever a handler has spawned the extraction subprocess with stdout
\* and stderr piped, a subprocess whose write waits on a full pipe has a
\* reader reading that stream, so it never waits forever.
StreamReader(stream) == IF stream = "stdout" THEN reader[1] ELSE errReader[1]

C20_BothStreamsDrained ==
  \A stream \in Streams :
    proc[1] = BlockedOn(stream) => StreamReader(stream) = "reading"

\* C21: once the timeout of an attempt has fired, the subprocess of the
\* attempt no longer runs (it was killed or had exited) and its streams are
\* closed, so that both reader loops end
C21_KilledAfterTimeout ==
  \A a \in AttemptIds :
    timer[a] = "fired" => proc[a] # "running" /\ ~streamsOpen[a]

\* the positions at which the pipeline of a job is suspended on the
\* subprocess or on the storage service
SuspensionPoints == {"race", "await_status", "upload", "sign"}

\* C22: every suspension point is raced against the timeout: when the timer
\* of the current attempt fires while the pipeline is suspended at one of
\* them, the pipeline takes the timeout path
C22_EverySuspensionRaced ==
  [][\A a \in AttemptIds :
       (/\ timer[a] = "armed" /\ timer'[a] = "fired"
        /\ attempts = a /\ pc \in SuspensionPoints)
         => pc' = "exec_catch" /\ outcome' = "timeout"]_vars

\* the height a selector alternative is capped at (0: not capped)
HeightValue(height) ==
  CASE height = "" -> 0
    [] height = "144" -> 144 [] height = "360" -> 360
    [] height = "480" -> 480 [] height = "720" -> 720
    [] height = "1080" -> 1080 [] height = "1440" -> 1440
    [] height = "2160" -> 2160

Built == pc \in {"built_enhanced", "built_precise"}

\* C23: for format video, every alternative of the selector built by
\* buildEnhancedDownloadCommand and by buildPreciseDownloadCommand selects a
\* video-only stream and is capped at the requested height
C23_VideoOnlyCapped ==
  (Built /\ format = "video") =>
    \A i \in DOMAIN ytDlpArgs.selector :
      /\ ytDlpArgs.selector[i].stream = "bestvideo"
      /\ ytDlpArgs.selector[i].height = maxHeight(resolution)

\* number of conditions of a selector alternative
Conditions(alt) ==
  (IF alt.height # "" THEN 1 ELSE 0) + (IF alt.ext # "" THEN 1 ELSE 0)

\* alternative b is at least as loose as alternative a: it has no more
\* conditions, and it does not narrow "best" to one kind of stream
AsLoose(a, b) ==
  /\ Conditions(b) <= Conditions(a)
  /\ a.stream = "best" => b.stream = "best"

\* C24: the selector built by buildEnhancedDownloadCommand is a fallback
\* chain: every alternative is at least as loose as the one before it, the
\* last one is "best" without any condition, and for format both the chain
\* has at least three alternatives
C24_FallbackChain ==
  pc = "built_enhanced" =>
    LET sel == ytDlpArgs.selector
    IN  /\ Len(sel) >= 1
        /\ \A i \in 1..(Len(sel) - 1) : AsLoose(sel[i], sel[i + 1])
        /\ sel[Len(sel)] = Alt("best", "", "")
        /\ sel[1] # sel[Len(sel)]
        /\ format = "both" => Len(sel) >= 3

\* a selector has been built for format both, with a capped first choice
C24_Witness ==
  /\ pc = "built_enhanced" /\ format = "both"
  /\ Len(ytDlpArgs.selector) >= 3
  /\ ytDlpArgs.selector[1].height = maxHeight(resolution)

\* C25: in downloadVideoWithValidation the height ceiling of every capped
\* alternative of the selector is at most the height the client requested
C25_CeilingWithinRequest ==
  pc = "built_precise" =>
    \A i \in DOMAIN ytDlpArgs.selector :
      HeightValue(ytDlpArgs.selector[i].height) <= resolutionNumber(resolution)

Spawned == \E a \in AttemptIds : proc[a] # "none"

\* C26: when a subprocess of the job has been spawned, the handler's update
\* has already set the record to downloading (it is no longer pending), and
\* at every position of the pipeline, terminal or not, the acceptance has
\* already been returned
C26_DownloadingBeforeSpawn ==
  /\ Spawned => Status # "pending" /\ lastWrite.src # "insert"
  /\ pc \notin {"idle", "rejected"} => response = "success"

\* the first subprocess runs, the record is downloading and the acceptance
\* has been returned
C26_Witness ==
  /\ proc[1] = "running" /\ attempts = 1
  /\ Status = "downloading" /\ response = "success"

\* the request parameters and the source metadata of a record
RequestFields ==
  {"video_url", "quality", "video_title", "video_thumbnail", "video_duration",
   "video_uploader"}

\* C27: the pipeline of job A updates the record of job A only: no record is
\* inserted or deleted, the record of another job is never changed, and the
\* request parameters and the source metadata of every record stay as they
\* were inserted
C27_OwnRecordOnly ==
  [][/\ DOMAIN jobs' = DOMAIN jobs
     /\ \A j \in DOMAIN jobs :
          /\ j # RequestJobId => jobs'[j] = jobs[j]
          /\ DOMAIN jobs'[j] = DOMAIN jobs[j]
          /\ \A k \in RequestFields : jobs'[j][k] = jobs[j][k]]_vars

\* the pipeline has completed job A while the record of job B is pending
C27_Witness ==
  /\ Status = "completed" /\ Job.progress = Pct(100)
  /\ jobs["B"].status = "pending" /\ jobs["B"].progress = 0

\* a reader loop persists a progress update in this step
ParserUpdates == lastWrite' # lastWrite /\ lastWrite'.src = "parser"

\* C28: of two consecutive updates of a reader loop, the later one is more
\* than 1 point above the earlier one, or it comes more than the minimum
\* interval after it (in the loop that keeps the time of its last update)
C28_RateLimited ==
  [][(ParserUpdates /\ lastWrite.src = "parser") =>
       \/ lastWrite'.progress > lastWrite.progress + MinDelta
       \/ pc = "interval" /\ now - lastUpdateTime > MinInterval]_vars

\* two consecutive updates of the loop that keeps the time, a point or less
\* apart: the later one was let through by the interval
C28_Witness ==
  /\ pc = "interval"
  /\ lastWrite.src = "parser" /\ lastWrite.prevSrc = "parser"
  /\ lastWrite.progress <= lastWrite.prevProgress + MinDelta
  /\ lastWrite.progress > lastWrite.prevProgress
  /\ lastUpdateTime > MinInterval

\* the percentages the tool prints in the lines ReaderChunks are cut from,
\* in tenths
ToolPercentages ==
  {0, 50, 159, 165, 250, 300, 333, 385, 452, 459, 470, 481, 500, 600, 620,
   715, 845, 923, 1000}

\* the ceiling a reader loop applies
CeilingOf(mode) == IF mode = "race" THEN ParserCeiling ELSE LegacyCeiling

\* C29: with percentages split across two reads, the reader loop of
\* monitorDownloadWithTimeout and the one that asks for more than 2 points
\* persist nothing or a percentage the tool printed (cut at the loop's
\* ceiling); they never persist the number of a fragment and never a
\* negative value
C29_NoFragmentValue ==
  [][(pc \in {"race", "coarse"} /\ ParserUpdates) =>
       /\ lastWrite'.progress >= 0
       /\ \E v \in ToolPercentages :
            lastWrite'.progress = Min(v, CeilingOf(pc))]_vars

\* C30: in the reader loop that applies the minimum delta and the minimum
\* interval, no progress update persists a percentage below the one its
\* last progress update persisted, also when only the interval let it through
C30_IntervalNeverDecreases ==
  [][(pc = "interval" /\ ParserUpdates /\ lastWrite.src = "parser") =>
       lastWrite'.progress >= lastWrite.progress]_vars

\* C31: in the reader loop with the post-processing check, the update that
\* follows the update for a post-processing message persists at least 85
C31_HighWaterAfterMarker ==
  [][(pc = "interval" /\ lastWrite.src = "postprocess" /\ lastWrite' # lastWrite)
       => lastWrite'.progress >= PostProcessingProgress]_vars

\* C32: in the parser runs of monitorDownloadWithTimeout and of
\* monitorDownloadProgress, whatever percentage the tool prints, no value the
\* stdout parser persists and no progress of the record exceeds 90
C32_ParserAtMostNinety ==
  /\ lastWrite.src = "parser" => lastWrite.progress <= Pct(90)
  /\ downloadProgress[1] <= Pct(90)
  /\ Job.progress <= Pct(90)

\* monitorDownloadProgress read a percentage above 90 and persisted 90
C32_Witness ==
  /\ pc = "monitor"
  /\ lastWrite.src = "parser" /\ lastWrite.progress = MonitorCeiling
  /\ Job.progress = MonitorCeiling

\* C33: the update executeDownloadWithValidation sends before a retry sets a
\* progress above 0 (15 after the first attempt, 20 after the second) and no
\* status, and the record it is applied to stays downloading
C33_RetryLowWatermark ==
  lastWrite.src = "retry" =>
    /\ lastWrite.progress > 0
    /\ lastWrite.progress \in {Pct(15), Pct(20)}
    /\ lastWrite.status = Null
    /\ Status = "downloading"
    /\ Job.progress = lastWrite.progress

\* the second retry: 20 is written after a parser had persisted more
C33_Witness ==
  /\ lastWrite.src = "retry" /\ lastWrite.progress = RetryProgress(2)
  /\ lastWrite.prevSrc = "parser" /\ lastWrite.prevProgress > lastWrite.progress
  /\ Status = "downloading"

\* C34: the reader of an attempt that its timeout has abandoned sends no
\* progress update after the next attempt was spawned or after the terminal
\* update: a parser's update finds the record downloading, and the reader of
\* the latest attempt still running
C34_NoWriteAfterAbandon ==
  [][ParserUpdates =>
       /\ Status = "downloading"
       /\ reader[attempts] \in {"reading", "stale"}]_vars

\* C35: in the attempt that follows a retry, every value its stdout parser
\* persists is at least the progress the retry had written
C35_NotBelowRetry ==
  (pc = "race" /\ lastWrite.src = "parser") =>
    lastWrite.progress >= RetryProgress(attempts - 1)

\* C36: while the job is in its first attempt, every update but the one that
\* marks it failed writes a progress that is not below the progress of the
\* update before it: 5, 8, 15, the parser values, 90, 100
C36_NoRetryNonDecreasing ==
  (attempts <= 1 /\ lastWrite.src # "catch") =>
    lastWrite.progress >= lastWrite.prevProgress

\* the job completed in its first attempt after a chunk was read: 100 follows 90
C36_Witness ==
  /\ Status = "completed" /\ attempts = 1 /\ nRead = MaxChunks
  /\ lastWrite.src = "complete" /\ lastWrite.progress = Pct(100)
  /\ lastWrite.prevSrc = "stage" /\ lastWrite.prevProgress = UploadProgress

\* a subprocess that was spawned and has neither exited nor died
Alive(a) == proc[a] \in {"running", "signalled"}

\* C37: at most one extraction subprocess of the job is alive at any time
C37_OneSubprocess ==
  Cardinality({a \in AttemptIds : Alive(a)}) <= 1

\* C38: a timeout timer that fires when the race of its attempt is no longer
\* pending changes nothing but itself: no subprocess is signalled, no
\* attempt is started, the pipeline does not move and no update is sent
C38_LateTimerNoEffect ==
  [][\A a \in AttemptIds :
       (timer[a] = "armed" /\ timer'[a] = "fired"
          /\ ~(pc = "race" /\ attempts = a))
         => /\ proc' = proc /\ streamsOpen' = streamsOpen
            /\ attempts' = attempts /\ pc' = pc /\ outcome' = outcome
            /\ jobs' = jobs /\ lastWrite' = lastWrite
            /\ terminalWrites' = terminalWrites
            /\ reader' = reader /\ errReader' = errReader]_vars

\* the timer of attempt 1 has fired during the race of attempt 2, after
\* attempt 1 had ended with an error exit
C38_Witness ==
  /\ timer[1] = "fired" /\ timer[2] = "armed"
  /\ attempts = 2 /\ pc = "race" /\ outcome = "exit_fail"
  /\ proc[2] = "running"

\* C39: the update in the catch of downloadVideoProcess leaves the record
\* with status failed, an error message, progress 0 and neither
\* download_speed nor eta; it changes neither file_size nor download_url,
\* and both are null after it on every failure path
C39_FailedWriteFrame ==
  [][(lastWrite' # lastWrite /\ lastWrite'.src = "catch") =>
       LET before == jobs[RequestJobId]
           after == jobs'[RequestJobId]
       IN  /\ after.status = "failed"
           /\ after.error_message # Null
           /\ after.progress = 0
           /\ after.download_speed = Null /\ after.eta = Null
           /\ after.file_size = before.file_size
           /\ after.download_url = before.download_url
           /\ after.file_size = Null /\ after.download_url = Null
           /\ \A k \in DOMAIN before \ {"status", "error_message", "progress",
                                          "download_speed", "eta"} :
                after[k] = before[k]]_vars

\* the job failed after its upload had started: the failed update came
\* after the update of the upload stage
C39_Witness ==
  /\ Status = "failed" /\ lastWrite.src = "catch"
  /\ lastWrite.prevSrc = "stage" /\ lastWrite.prevProgress = UploadProgress
  /\ Job.file_size = Null /\ Job.download_url = Null

\* the select has been applied and every event sent has been delivered
Settled == snapshot.state = "applied" /\ channel = <<>>

\* C40: once the snapshot and the events have been applied, the client's
\* list holds, for every job an UPDATE event was delivered for, an entry at
\* least as recent as the last such event, and no two entries with one id
C40_SnapshotAndEvents ==
  Settled =>
    /\ \A j \in JobIds :
         received[j] >= 0 =>
           \E i \in DOMAIN downloadJobs :
             /\ downloadJobs[i].id = j
             /\ downloadJobs[i].progress >= received[j]
    /\ \A i, k \in DOMAIN downloadJobs :
         i # k => downloadJobs[i].id # downloadJobs[k].id

====
